---- MODULE Spec2Model ----
(***************************************************************************)
(* Model of the gitgud pull-request dashboard core (src/src/utils/         *)
(* prUtils.ts and its callers): the status classifier getPRStatus, the     *)
(* repository colour hash getRepoColor, the localStorage pin store, the    *)
(* dashboard's refresh and pin handlers, the filter and sort pipeline, the *)
(* grouping by status, the fetch join of githubService.ts and the start-up *)
(* of the dashboard with its persisted filter options.  Each component has *)
(* its own specification; the variables of the others are held idle.       *)
(*                                                                         *)
(* JavaScript values are encoded as follows.  An optional field            *)
(* (reviews?, reviewDecision?, status?, stale?) is None (= undefined) or   *)
(* Some(v).  Objects live in a heap (a sequence of records, a reference is *)
(* an index), so that "copy" and "alias" are different things.  An ISO     *)
(* timestamp is represented by the epoch milliseconds it denotes.          *)
(***************************************************************************)
EXTENDS Integers, Sequences, FiniteSets, TLC

VARIABLES
  heap,               \* classifier: the objects; heap[1] is the caller's pull request
  returned,           \* classifier: reference returned by the last getPRStatus call, 0 before
  now,                \* classifier: Date.now()
  calledAt,           \* classifier: Date.now() as read by the last getPRStatus call
  staleThresholdDays, \* classifier: the configured threshold
  repoName,           \* colour: the argument of getRepoColor, a sequence of UTF-16 code units
  color,              \* colour: None before the call, Some({bg, text}) after
  storage,            \* pin store: the localStorage record 'pinned_prs'
  before,             \* pin store: that record when the last operation started
  op,                 \* pin store: the last operation and its argument
  ret,                \* pin store: what the last operation returned (None: nothing)
  raised,             \* pin store: TRUE when the last operation threw
  writes,             \* pin store: localStorage.setItem calls made by the last operation
  prev,               \* pin store: op, before and ret of the operation before the last
                      \* (kept by the pin-store specifications only)
  given,              \* pin store: the array handed to the last applyPinStatus call
                      \* (its references) and the objects as they were at the call
  allPRs,             \* dashboard: the React state allPRs
  inflight,           \* dashboard: fetchPRs calls waiting for the network
  loading,            \* dashboard: the React state loading
  error,              \* dashboard: TRUE when the React state error holds a message
  toggles,            \* dashboard: pin clicks handled so far, per pull request
  pinned0,            \* dashboard: the identifiers pinned when the page was opened
  filterOptions,      \* pipeline: the React state filterOptions
  filteredPRs,        \* pipeline: what the last call returned (the React state filteredPRs)
  previous,           \* pipeline: what the call before the last returned
  called,             \* pipeline: the last call and its flag
  groupInput,         \* grouping: the argument of groupPRsByStatus
  groups,             \* grouping: what groupPRsByStatus returned, None before the call
  responses,          \* fetching: the answer every request of the call will get
  listed,             \* fetching: per repository, TRUE once pulls.list was answered
  slots,              \* fetching: per pull request, the value its map callback fulfilled with
  results,            \* fetching: per repository, the value of fetchRepositoryPRs
  fetched,            \* fetching: the value of fetchAllPRs, None while it is pending
  propagated,         \* fetching: TRUE when fetchAllPRs rejected
  appConfig,          \* start-up: the text under the localStorage key 'app_config'
  prFilters,          \* start-up: the text under the localStorage key 'pr_filters'
  mountedWith,        \* start-up: the text under 'pr_filters' when the page was opened
  phase,              \* start-up: "initialised", "mounted" or "crashed"
  pending,            \* start-up: the effects of the last commit still to run, in order
  queued              \* start-up: the state updates waiting for the next render

classifyVars == <<heap, returned, now, calledAt, staleThresholdDays>>
colorVars == <<repoName, color>>
pinVars == <<storage, before, op, ret, raised, writes, prev, given>>
dashVars == <<allPRs, inflight, loading, error, toggles, pinned0>>
pipeVars == <<filterOptions, filteredPRs, previous, called>>
groupVars == <<groupInput, groups>>
fetchVars == <<responses, listed, slots, results, fetched, propagated>>
mountVars == <<appConfig, prFilters, mountedWith, phase, pending, queued>>
restVars == <<groupVars, fetchVars, mountVars>>
vars == <<classifyVars, colorVars, pinVars, dashVars, pipeVars, restVars>>

---------------------------------------------------------------------------
(* Bounds *)
MaxReviews == 2
MaxThresholdDays == 2
MaxNameLen == 7
MaxIds == 3
MaxPRs == 2
MaxDashIds == 2
MaxToggles == 3
MaxInflight == 2
MaxFilterLen == 2
MaxSearchLen == 3
MaxSortLen == 3
MaxGroupLen == 3
MaxFetchPRs == 2

---------------------------------------------------------------------------
(* Optional values *)
None == <<>>
Some(v) == <<v>>
Get(o) == o[1]

---------------------------------------------------------------------------
(* localStorage and JSON *)

(* The text kept under a localStorage key is represented by what it        *)
(* denotes: no record (getItem returns null), the empty string, a text     *)
(* that is not JSON, or the text of a JSON document.  A JSON value is an   *)
(* array of strings, null, a number, an object or a string.                *)
Missing == [kind |-> "missing"]
EmptyText == [kind |-> "empty"]
NotJson == [kind |-> "notjson"]
JsonText(v) == [kind |-> "json", value |-> v]

JArray(items) == [t |-> "array", items |-> items]
JNull == [t |-> "null"]
JNumber == [t |-> "number"]
JObject == [t |-> "object"]
JString(str) == [t |-> "string", str |-> str]

\* `text ? ... : ...`: null and '' are falsy
Truthy(text) == text.kind \notin {"missing", "empty"}

\* JSON.parse: a SyntaxError on a text that is not JSON
JSONparse(text) ==
  IF text.kind = "json" THEN [threw |-> FALSE, value |-> text.value]
  ELSE [threw |-> TRUE, value |-> JNull]

JSONstringify(v) == JsonText(v)

\* the idle pin store of the specifications that do not use it
NoOp == [name |-> "none", id |-> "-"]
NoPrev == [op |-> NoOp, before |-> Missing, ret |-> None]
NoArray == [refs |-> <<>>, values |-> <<>>]

PinIdle ==
  /\ storage = Missing /\ before = Missing
  /\ op = NoOp /\ ret = None /\ raised = FALSE /\ writes = 0
  /\ prev = NoPrev
  /\ given = NoArray

\* the dashboard of the specifications that do not render it
DashIdle ==
  /\ allPRs = <<>> /\ inflight = 0 /\ loading = FALSE /\ error = FALSE
  /\ toggles = <<>> /\ pinned0 = {}

\* no call of the pipeline yet
NoCall == [fn |-> "none", showDrafts |-> FALSE]

\* the options the dashboard starts with when nothing is saved
DefaultOptions ==
  [searchQuery |-> "", repositories |-> <<>>, authors |-> <<>>, hideStale |-> TRUE,
   sortBy |-> "updated", prioritizeMyReviews |-> TRUE]

\* the pipeline of the specifications that do not run it
PipeIdle ==
  /\ filterOptions = DefaultOptions /\ filteredPRs = <<>> /\ previous = <<>>
  /\ called = NoCall

\* no grouping yet
GroupIdle == groupInput = <<>> /\ groups = None

\* no fetchAllPRs call
FetchIdle ==
  /\ responses = <<>> /\ listed = <<>> /\ slots = <<>> /\ results = <<>>
  /\ fetched = None /\ propagated = FALSE

\* the start-up is not modelled
MountIdle ==
  /\ appConfig = Missing /\ prFilters = Missing /\ mountedWith = Missing
  /\ phase = "mounted" /\ pending = <<>>
  /\ queued = [options |-> None, filtered |-> None]

\* the components after the pipeline, in the specifications that do not run them
RestIdle == GroupIdle /\ FetchIdle /\ MountIdle

---------------------------------------------------------------------------
(* Status classifier *)

DAY_MS == 24 * 60 * 60 * 1000

\* review.state as delivered by the API (Review.state is a plain string)
ReviewStateValues == {"APPROVED", "CHANGES_REQUESTED", "COMMENTED", "DISMISSED"}

\* the optional aggregate reviewDecision
ReviewDecisionValues ==
  {None, Some("APPROVED"), Some("CHANGES_REQUESTED"), Some("REVIEW_REQUIRED"), Some("OTHER")}

ReviewLists == UNION {[1..n -> [state : ReviewStateValues]] : n \in 0..MaxReviews}

\* the instant every modelled pull request was last updated
UpdatedAt == 1000

\* elapsed times around each threshold boundary
Elapsed == {0} \cup {d * DAY_MS + e : d \in 1..MaxThresholdDays, e \in {-1, 0, 1}}

\* the pull requests handed to getPRStatus: built by fetchRepositoryPRs without
\* status and stale; reviews is always set there, other callers may omit it
InputPRs ==
  [draft : BOOLEAN,
   updated_at : {UpdatedAt},
   reviews : {None} \cup {Some(r) : r \in ReviewLists},
   reviewDecision : ReviewDecisionValues,
   status : {None},
   stale : {None}]

\* faulty variant: "every" written for "some"
hasChangesRequested_Every(pr) ==
  \/ /\ pr.reviews # None
     /\ Get(pr.reviews) # <<>>
     /\ \A i \in DOMAIN Get(pr.reviews) : Get(pr.reviews)[i].state = "CHANGES_REQUESTED"
  \/ pr.reviewDecision = Some("CHANGES_REQUESTED")

\* faulty variant: the aggregate reviewDecision is not consulted
hasChangesRequested_ReviewsOnly(pr) ==
  /\ pr.reviews # None
  /\ \E i \in DOMAIN Get(pr.reviews) : Get(pr.reviews)[i].state = "CHANGES_REQUESTED"

\* pr.reviews?.some(pred): undefined when reviews is absent
hasChangesRequested(pr) ==
  \/ /\ pr.reviews # None
     /\ \E i \in DOMAIN Get(pr.reviews) : Get(pr.reviews)[i].state = "CHANGES_REQUESTED"
  \/ pr.reviewDecision = Some("CHANGES_REQUESTED")

\* faulty variant: a COMMENTED review counts as an approval
needsReview_CountsComments(pr) ==
  \/ ~ ( /\ pr.reviews # None
         /\ \E i \in DOMAIN Get(pr.reviews) :
              Get(pr.reviews)[i].state \in {"APPROVED", "COMMENTED"} )
  \/ pr.reviewDecision = Some("REVIEW_REQUIRED")

\* faulty variant: the aggregate REVIEW_REQUIRED is not consulted
needsReview_IgnoresDecision(pr) ==
  ~ ( /\ pr.reviews # None
      /\ \E i \in DOMAIN Get(pr.reviews) : Get(pr.reviews)[i].state = "APPROVED" )

needsReview(pr) ==
  \/ ~ ( /\ pr.reviews # None
         /\ \E i \in DOMAIN Get(pr.reviews) : Get(pr.reviews)[i].state = "APPROVED" )
  \/ pr.reviewDecision = Some("REVIEW_REQUIRED")

isApproved(pr) ==
  \/ /\ pr.reviews # None
     /\ \A i \in DOMAIN Get(pr.reviews) :
          Get(pr.reviews)[i].state \in {"APPROVED", "COMMENTED"}
  \/ pr.reviewDecision = Some("APPROVED")

\* faulty variant: the approved rule tested before the needs-review rule
ReviewStatus_ApprovedFirst(pr) ==
  IF hasChangesRequested(pr) THEN "CHANGES_REQUESTED"
  ELSE IF isApproved(pr) THEN "APPROVED"
  ELSE IF needsReview(pr) THEN "NEEDS_REVIEW"
  ELSE "UNKNOWN"

\* the priority chain of getPRStatus for a non-draft pull request
ReviewStatus(pr) ==
  IF hasChangesRequested(pr) THEN "CHANGES_REQUESTED"
  ELSE IF needsReview(pr) THEN "NEEDS_REVIEW"
  ELSE IF isApproved(pr) THEN "APPROVED"
  ELSE "UNKNOWN"

\* faulty variant: ">=" written for ">"
IsStaleAt_Inclusive(updated_at, days, nowMs) ==
  LET STALE_THRESHOLD == days * DAY_MS
  IN nowMs - updated_at >= STALE_THRESHOLD

\* Date.now() - new Date(updated_at).getTime() > STALE_THRESHOLD
IsStaleAt(updated_at, days, nowMs) ==
  LET STALE_THRESHOLD == days * DAY_MS
  IN nowMs - updated_at > STALE_THRESHOLD

\* faulty variant: processedPR = pr, no copy
Clone_Alias(h, ref) == [heap |-> h, ref |-> ref]

\* { ...pr }: a new object with the same own fields
Clone(h, ref) == [heap |-> Append(h, h[ref]), ref |-> Len(h) + 1]

\* obj.field = value
SetField(h, ref, field, value) == [h EXCEPT ![ref] = [@ EXCEPT ![field] = value]]

\* faulty variant: the draft test comes after the changes-requested rule
getPRStatus_DraftSecond(h, pr, days, nowMs) ==
  LET c == Clone(h, pr)
      processedPR == c.ref
      h1 == c.heap
  IN IF h1[processedPR].draft /\ ~hasChangesRequested(h1[processedPR])
     THEN [heap |-> SetField(h1, processedPR, "status", Some("DRAFT")),
           ref |-> processedPR]
     ELSE LET h2 == SetField(h1, processedPR, "status",
                             Some(ReviewStatus(h1[processedPR])))
              h3 == SetField(h2, processedPR, "stale",
                             Some(IsStaleAt(h2[processedPR].updated_at, days, nowMs)))
          IN [heap |-> h3, ref |-> processedPR]

\* faulty variant: no early return, staleness is computed on the draft branch too
getPRStatus_StaleOnDraft(h, pr, days, nowMs) ==
  LET c == Clone(h, pr)
      processedPR == c.ref
      h1 == c.heap
      h2 == SetField(h1, processedPR, "status",
                     Some(IF h1[processedPR].draft THEN "DRAFT"
                          ELSE ReviewStatus(h1[processedPR])))
      h3 == SetField(h2, processedPR, "stale",
                     Some(IsStaleAt(h2[processedPR].updated_at, days, nowMs)))
  IN [heap |-> h3, ref |-> processedPR]

getPRStatus(h, pr, days, nowMs) ==
  LET c == Clone(h, pr)
      processedPR == c.ref
      h1 == c.heap
  IN IF h1[processedPR].draft
     THEN [heap |-> SetField(h1, processedPR, "status", Some("DRAFT")),
           ref |-> processedPR]
     ELSE LET h2 == SetField(h1, processedPR, "status",
                             Some(ReviewStatus(h1[processedPR])))
              h3 == SetField(h2, processedPR, "stale",
                             Some(IsStaleAt(h2[processedPR].updated_at, days, nowMs)))
          IN [heap |-> h3, ref |-> processedPR]

InitClassify ==
  /\ \E pr \in InputPRs : heap = <<pr>>
  /\ returned = 0
  /\ now = UpdatedAt
  /\ calledAt = UpdatedAt
  /\ staleThresholdDays \in 1..MaxThresholdDays
  /\ repoName = <<>> /\ color = None
  /\ PinIdle /\ DashIdle /\ PipeIdle /\ RestIdle

\* one call getPRStatus(pr, staleThresholdDays) on the caller's pull request;
\* the object returned by the previous call is no longer referenced
Classify ==
  LET r == getPRStatus(SubSeq(heap, 1, 1), 1, staleThresholdDays, now)
  IN /\ heap' = r.heap
     /\ returned' = r.ref
     /\ calledAt' = now
     /\ UNCHANGED <<now, staleThresholdDays, colorVars, pinVars, dashVars, pipeVars, restVars>>

\* time passes
Tick ==
  /\ \E e \in Elapsed : /\ UpdatedAt + e > now
                        /\ now' = UpdatedAt + e
  /\ UNCHANGED <<heap, returned, calledAt, staleThresholdDays, colorVars, pinVars, dashVars, pipeVars, restVars>>

NextClassify == Classify \/ Tick

SpecClassify == InitClassify /\ [][NextClassify]_vars

---------------------------------------------------------------------------
(* Repository colour assigner *)

(* A JavaScript number holding an integer is kept exactly, as two limbs:   *)
(* [hi, lo] stands for hi * 65536 + lo with 0 <= lo < 65536.  The          *)
(* accumulator of getRepoColor leaves the 32-bit range, which one machine  *)
(* integer of the checker cannot hold.                                     *)
Num(nhi, nlo) == [hi |-> nhi, lo |-> nlo]
NumOfCode(c) == Num(0, c)

\* a + b and a - b on numbers: exact, no wraparound
NumAdd(a, b) ==
  LET sum == a.lo + b.lo
  IN IF sum >= 65536 THEN Num(a.hi + b.hi + 1, sum - 65536) ELSE Num(a.hi + b.hi, sum)

NumSub(a, b) ==
  LET diff == a.lo - b.lo
  IN IF diff < 0 THEN Num(a.hi - b.hi - 1, diff + 65536) ELSE Num(a.hi - b.hi, diff)

\* Math.abs
NumAbs(a) ==
  IF a.hi >= 0 THEN a
  ELSE IF a.lo = 0 THEN Num(-a.hi, 0) ELSE Num(-a.hi - 1, 65536 - a.lo)

\* a % 360 for a >= 0 (65536 = 182 * 360 + 16)
NumMod360(a) == ((a.hi % 360) * 16 + a.lo) % 360

\* ToInt32: the operand conversion of the << operator
ToInt32(a) ==
  LET top == a.hi % 65536
  IN Num(IF top >= 32768 THEN top - 65536 ELSE top, a.lo)

\* a << 5: operand and result are signed 32-bit integers
ShiftLeft5(a) ==
  LET x == ToInt32(a)
      low == x.lo * 32
  IN ToInt32(Num(x.hi * 32 + low \div 65536, low % 65536))

\* faulty variant: (acc << 5) + acc, the times-33 variant of the hash
HashStep_Times33(acc, code) == NumAdd(NumOfCode(code), NumAdd(ShiftLeft5(acc), acc))

\* the reducer: char.charCodeAt(0) + ((acc << 5) - acc); the subtraction and
\* the addition are ordinary number arithmetic
HashStep(acc, code) == NumAdd(NumOfCode(code), NumSub(ShiftLeft5(acc), acc))

\* repoName.split('').reduce(reducer, 0): the successive values of acc,
\* from the initial 0 to the result
RECURSIVE HashTrace(_)
HashTrace(codes) ==
  IF codes = <<>> THEN <<Num(0, 0)>>
  ELSE LET t == HashTrace(SubSeq(codes, 1, Len(codes) - 1))
       IN Append(t, HashStep(t[Len(t)], codes[Len(codes)]))

Hash(name) == HashTrace(name)[Len(name) + 1]

\* the template literal `hsl(${hue}, 80%, ${l}%)`
Hsl(hue, l) == "hsl(" \o ToString(hue) \o ", 80%, " \o ToString(l) \o "%)"

getRepoColor(name) ==
  LET hash == Hash(name)
      hue == NumMod360(NumAbs(hash))
  IN [bg |-> Hsl(hue, 90), text |-> Hsl(hue, 30)]

\* code units of '-', 'a' and 'z'
NameChars == {45, 97, 122}
RepoNames == UNION {[1..n -> NameChars] : n \in 0..MaxNameLen}

InitColor ==
  /\ repoName \in RepoNames
  /\ color = None
  /\ heap = <<>> /\ returned = 0 /\ now = 0 /\ calledAt = 0 /\ staleThresholdDays = 1
  /\ PinIdle /\ DashIdle /\ PipeIdle /\ RestIdle

\* a card or a filter chip asks for the colour of its repository
GetRepoColor ==
  /\ color = None
  /\ color' = Some(getRepoColor(repoName))
  /\ UNCHANGED <<repoName, classifyVars, pinVars, dashVars, pipeVars, restVars>>

\* the next render asks again
Rerender ==
  /\ color # None
  /\ color' = None
  /\ UNCHANGED <<repoName, classifyVars, pinVars, dashVars, pipeVars, restVars>>

NextColor == GetRepoColor \/ Rerender

SpecColor == InitColor /\ [][NextColor]_vars

---------------------------------------------------------------------------
(* Pin store *)

\* pull-request identifiers: pr.id.toString(), here all of the same length
IdOf(i) == ToString(100 + i)
Ids == {IdOf(i) : i \in 1..MaxIds}

\* what an operation did: the record it left, its return value, whether it
\* threw, and how many times it called localStorage.setItem
Outcome(st, value, threw, nwrites) ==
  [storage |-> st, ret |-> value, raised |-> threw, writes |-> nwrites]

\* String.prototype.includes / indexOf on strings of equal length, and on a
\* string that shares no character with an identifier
StringIncludes(str, id) == str = id

\* v.includes(id): Array.prototype.includes, String.prototype.includes, or a
\* TypeError when v is null or has no such method
Includes(v, id) ==
  IF v.t = "array" THEN [threw |-> FALSE, value |-> \E i \in DOMAIN v.items : v.items[i] = id]
  ELSE IF v.t = "string" THEN [threw |-> FALSE, value |-> StringIncludes(v.str, id)]
  ELSE [threw |-> TRUE, value |-> FALSE]

\* v.indexOf(id), zero-based, -1 when absent
IndexOf(v, id) ==
  IF v.t = "array"
  THEN [threw |-> FALSE,
        value |-> IF \E i \in DOMAIN v.items : v.items[i] = id
                  THEN (CHOOSE i \in DOMAIN v.items :
                          /\ v.items[i] = id
                          /\ \A j \in 1..(i - 1) : v.items[j] # id) - 1
                  ELSE -1]
  ELSE IF v.t = "string"
  THEN [threw |-> FALSE, value |-> IF StringIncludes(v.str, id) THEN 0 ELSE -1]
  ELSE [threw |-> TRUE, value |-> -1]

\* faulty variant: items.splice(index), which drops the tail as well
Splice1_NoCount(items, index) == SubSeq(items, 1, index)

\* items.splice(index, 1)
Splice1(items, index) ==
  SubSeq(items, 1, index) \o SubSeq(items, index + 2, Len(items))

getPinnedPRs(st) ==
  IF Truthy(st)
  THEN LET parsed == JSONparse(st)
       IN IF parsed.threw THEN JArray(<<>>) ELSE parsed.value
  ELSE JArray(<<>>)

\* faulty variant: no includes test before the push
pinPR_AlwaysPush(st, prId) ==
  LET pinnedPRs == getPinnedPRs(st)
  IN IF pinnedPRs.t = "array"
     THEN Outcome(JSONstringify(JArray(Append(pinnedPRs.items, prId))), None, FALSE, 1)
     ELSE Outcome(st, None, TRUE, 0)

pinPR(st, prId) ==
  LET pinnedPRs == getPinnedPRs(st)
      inc == Includes(pinnedPRs, prId)
  IN IF inc.threw THEN Outcome(st, None, TRUE, 0)
     ELSE IF ~inc.value
     THEN IF pinnedPRs.t = "array"
          THEN Outcome(JSONstringify(JArray(Append(pinnedPRs.items, prId))), None, FALSE, 1)
          ELSE Outcome(st, None, TRUE, 0)                 \* push is not a function
     ELSE Outcome(st, None, FALSE, 0)

\* faulty variant: the list is spliced but never written back
unpinPR_NoSetItem(st, prId) ==
  LET pinnedPRs == getPinnedPRs(st)
      index == IndexOf(pinnedPRs, prId)
  IN IF index.threw THEN Outcome(st, None, TRUE, 0)
     ELSE IF index.value # -1 /\ pinnedPRs.t # "array"
     THEN Outcome(st, None, TRUE, 0)
     ELSE Outcome(st, None, FALSE, 0)

unpinPR(st, prId) ==
  LET pinnedPRs == getPinnedPRs(st)
      index == IndexOf(pinnedPRs, prId)
  IN IF index.threw THEN Outcome(st, None, TRUE, 0)
     ELSE IF index.value # -1
     THEN IF pinnedPRs.t = "array"
          THEN Outcome(JSONstringify(JArray(Splice1(pinnedPRs.items, index.value))),
                       None, FALSE, 1)
          ELSE Outcome(st, None, TRUE, 0)                 \* splice is not a function
     ELSE Outcome(st, None, FALSE, 0)

\* faulty variant: returns the pin state it found, not the new one
togglePinPR_ReturnsOld(st, prId) ==
  LET pinnedPRs == getPinnedPRs(st)
      isPinned == Includes(pinnedPRs, prId)
  IN IF isPinned.threw THEN Outcome(st, None, TRUE, 0)
     ELSE LET done == IF isPinned.value THEN unpinPR(st, prId) ELSE pinPR(st, prId)
          IN IF done.raised THEN done
             ELSE [done EXCEPT !.ret = Some(isPinned.value)]

togglePinPR(st, prId) ==
  LET pinnedPRs == getPinnedPRs(st)
      isPinned == Includes(pinnedPRs, prId)
  IN IF isPinned.threw THEN Outcome(st, None, TRUE, 0)
     ELSE LET done == IF isPinned.value THEN unpinPR(st, prId) ELSE pinPR(st, prId)
          IN IF done.raised THEN done
             ELSE [done EXCEPT !.ret = Some(~isPinned.value)]

\* faulty variant: also writes back the pinned identifiers that were fetched
applyPinStatus_Prunes(h, st, prs) ==
  LET pinnedPRs == getPinnedPRs(st)
  IN IF prs # <<>> /\ Includes(pinnedPRs, h[prs[1]].id).threw
     THEN [heap |-> h, storage |-> st, ret |-> None, raised |-> TRUE, writes |-> 0]
     ELSE [heap |-> h \o [i \in DOMAIN prs |->
                            [h[prs[i]] EXCEPT
                               !.isPinned = Some(Includes(pinnedPRs, h[prs[i]].id).value)]],
           storage |-> IF pinnedPRs.t = "array"
                       THEN JSONstringify(JArray(SelectSeq(pinnedPRs.items,
                              LAMBDA id : \E i \in DOMAIN prs : h[prs[i]].id = id)))
                       ELSE st,
           ret |-> Some([i \in DOMAIN prs |-> Len(h) + i]),
           raised |-> FALSE, writes |-> 1]

\* faulty variant: prs.forEach(pr => { pr.isPinned = ... }); return prs
applyPinStatus_InPlace(h, st, prs) ==
  LET pinnedPRs == getPinnedPRs(st)
  IN IF prs # <<>> /\ Includes(pinnedPRs, h[prs[1]].id).threw
     THEN [heap |-> h, storage |-> st, ret |-> None, raised |-> TRUE, writes |-> 0]
     ELSE [heap |-> [r \in DOMAIN h |->
                       IF \E i \in DOMAIN prs : prs[i] = r
                       THEN [h[r] EXCEPT !.isPinned = Some(Includes(pinnedPRs, h[r].id).value)]
                       ELSE h[r]],
           storage |-> st, ret |-> Some(prs), raised |-> FALSE, writes |-> 0]

\* prs.map(pr => ({...pr, isPinned: pinnedPRs.includes(pr.id)})) on the array
\* prs of references into the heap h: one new object per element
applyPinStatus(h, st, prs) ==
  LET pinnedPRs == getPinnedPRs(st)
  IN IF prs # <<>> /\ Includes(pinnedPRs, h[prs[1]].id).threw
     THEN [heap |-> h, storage |-> st, ret |-> None, raised |-> TRUE, writes |-> 0]
     ELSE [heap |-> h \o [i \in DOMAIN prs |->
                            [h[prs[i]] EXCEPT
                               !.isPinned = Some(Includes(pinnedPRs, h[prs[i]].id).value)]],
           storage |-> st,
           ret |-> Some([i \in DOMAIN prs |-> Len(h) + i]),
           raised |-> FALSE, writes |-> 0]

\* the title every pull request of the pin-store specifications carries
PRTitle == "Fix bug"

\* the fetched pull requests handed to applyPinStatus: distinct ids, no isPinned
PRLists ==
  {prs \in UNION {[1..n -> [id : Ids, title : {PRTitle}, isPinned : {None}]] : n \in 0..MaxPRs} :
     \A i, j \in DOMAIN prs : prs[i].id = prs[j].id => i = j}

\* records that are not the text of a JSON array of identifiers
CorruptRecords ==
  {NotJson, JsonText(JNull), JsonText(JNumber), JsonText(JObject),
   JsonText(JString(IdOf(1))), JsonText(JString("oops"))}

ClassifyColorIdle ==
  /\ heap = <<>> /\ returned = 0 /\ now = 0 /\ calledAt = 0 /\ staleThresholdDays = 1
  /\ repoName = <<>> /\ color = None

\* a browser profile that never ran the dashboard
InitPin == PinIdle /\ ClassifyColorIdle /\ DashIdle /\ PipeIdle /\ RestIdle

\* a profile whose 'pinned_prs' record is missing, empty or corrupt
InitPinCorrupt ==
  /\ storage \in {Missing, EmptyText} \cup CorruptRecords
  /\ before = storage
  /\ op = NoOp /\ ret = None /\ raised = FALSE /\ writes = 0
  /\ prev = [NoPrev EXCEPT !.before = storage]
  /\ given = NoArray
  /\ ClassifyColorIdle /\ DashIdle /\ PipeIdle /\ RestIdle

\* what the last operation did to the record and what it gave back
Effect(name, id, o) ==
  /\ before' = storage
  /\ storage' = o.storage
  /\ op' = [name |-> name, id |-> id]
  /\ ret' = o.ret
  /\ raised' = o.raised
  /\ writes' = o.writes

Record(name, id, o) ==
  /\ Effect(name, id, o)
  /\ prev' = [op |-> op, before |-> before, ret |-> ret]

\* an operation on identifiers; the array of an earlier applyPinStatus call and
\* its objects are out of scope by then
Finish(name, id, o) ==
  /\ Record(name, id, o)
  /\ heap' = <<>>
  /\ given' = NoArray
  /\ UNCHANGED <<returned, now, calledAt, staleThresholdDays, colorVars, dashVars, pipeVars, restVars>>

GetPinnedPRs == Finish("getPinnedPRs", "-", Outcome(storage, Some(getPinnedPRs(storage)), FALSE, 0))

PinPR == \E id \in Ids : Finish("pinPR", id, pinPR(storage, id))

UnpinPR == \E id \in Ids : Finish("unpinPR", id, unpinPR(storage, id))

TogglePinPR == \E id \in Ids : Finish("togglePinPR", id, togglePinPR(storage, id))

\* the caller holds the array prs of objects 1..Len(prs); the objects of the
\* call before are no longer referenced
ApplyPinStatus ==
  \E prs \in PRLists :
    LET refs == [i \in DOMAIN prs |-> i]
        o == applyPinStatus(prs, storage, refs)
    IN /\ Record("applyPinStatus", "-", o)
       /\ heap' = o.heap
       /\ given' = [refs |-> refs, values |-> prs]
       /\ UNCHANGED <<returned, now, calledAt, staleThresholdDays, colorVars, dashVars, pipeVars, restVars>>

NextPin == GetPinnedPRs \/ PinPR \/ UnpinPR \/ TogglePinPR \/ ApplyPinStatus

SpecPin == InitPin /\ [][NextPin]_vars

SpecPinCorrupt == InitPinCorrupt /\ [][NextPin]_vars

---------------------------------------------------------------------------
(* Dashboard: PRDashboard.tsx, the refresh and the pin button *)

\* the open pull requests of the configured repositories
DashIds == {IdOf(i) : i \in 1..MaxDashIds}

\* the identifiers of S in ascending order
RECURSIVE Ascending(_)
Ascending(S) ==
  IF S = {} THEN <<>>
  ELSE LET least == CHOOSE x \in S : \A y \in S : \E i, j \in 1..MaxDashIds :
                                         x = IdOf(i) /\ y = IdOf(j) /\ i <= j
       IN <<least>> \o Ascending(S \ {least})

\* what fetchAllPRs can resolve to: those of the repositories that answered,
\* in the order the API lists them (no isPinned)
FetchedLists ==
  {[i \in DOMAIN ids |-> [id |-> ids[i], title |-> PRTitle, isPinned |-> None]] :
     ids \in {Ascending(S) : S \in SUBSET DashIds}}

\* a profile that never pinned, or one that pinned some of them earlier
InitDash ==
  /\ storage \in {Missing} \cup {JsonText(JArray(Ascending(S))) : S \in SUBSET DashIds}
  /\ before = storage
  /\ op = NoOp /\ ret = None /\ raised = FALSE /\ writes = 0
  /\ prev = NoPrev
  /\ given = NoArray
  /\ allPRs = <<>> /\ inflight = 0 /\ loading = FALSE /\ error = FALSE
  /\ toggles = [id \in DashIds |-> 0]
  /\ pinned0 = {id \in DashIds : Includes(getPinnedPRs(storage), id).value}
  /\ ClassifyColorIdle /\ PipeIdle /\ RestIdle

\* the variables the dashboard handlers leave alone: the pin store's log of
\* its last operation is kept by the pin-store specifications only
dashFrame ==
  <<before, op, ret, raised, writes, prev, given, pinned0, classifyVars, colorVars, pipeVars, restVars>>

\* fetchPRs up to its first await (mount, the 5-minute timer): with no
\* repository configured it sets the error and returns
FetchPRs ==
  /\ inflight < MaxInflight
  /\ \E configured \in BOOLEAN :
       IF configured
       THEN /\ loading' = TRUE
            /\ error' = FALSE
            /\ inflight' = inflight + 1
       ELSE /\ error' = TRUE
            /\ UNCHANGED <<loading, inflight>>
  /\ UNCHANGED <<storage, allPRs, toggles, dashFrame>>

\* faulty variant: the pull requests are stamped from the pin list as it was
\* when the page was opened
FetchPRsResolved_StaleStamp ==
  /\ inflight > 0
  /\ \E prs \in FetchedLists :
       LET o == applyPinStatus(prs, before, [i \in DOMAIN prs |-> i])
       IN /\ IF o.raised
             THEN error' = TRUE /\ UNCHANGED allPRs
             ELSE /\ allPRs' = [i \in DOMAIN prs |-> o.heap[Get(o.ret)[i]]]
                  /\ UNCHANGED error
          /\ UNCHANGED storage
  /\ loading' = FALSE
  /\ inflight' = inflight - 1
  /\ UNCHANGED <<toggles, dashFrame>>

\* fetchPRs after its awaits: fetchAllPRs resolved to prs (empty when every
\* request failed), then applyPinStatus, setAllPRs, and setLoading(false) in
\* the finally block; a throw of applyPinStatus lands in the catch block
FetchPRsResolved ==
  /\ inflight > 0
  /\ \E prs \in FetchedLists :
       LET o == applyPinStatus(prs, storage, [i \in DOMAIN prs |-> i])
       IN /\ IF o.raised
             THEN error' = TRUE /\ UNCHANGED allPRs
             ELSE /\ allPRs' = [i \in DOMAIN prs |-> o.heap[Get(o.ret)[i]]]
                  /\ UNCHANGED error
          /\ storage' = o.storage
  /\ loading' = FALSE
  /\ inflight' = inflight - 1
  /\ UNCHANGED <<toggles, dashFrame>>

\* handlePinToggle(prId) from the pin button of a card on display
HandlePinToggle ==
  \E k \in DOMAIN allPRs :
    LET prId == allPRs[k].id
        o == togglePinPR(storage, prId)
    IN /\ toggles[prId] < MaxToggles
       /\ storage' = o.storage
       /\ IF o.raised
          THEN UNCHANGED <<allPRs, toggles>>
          ELSE /\ allPRs' = [i \in DOMAIN allPRs |->
                               IF allPRs[i].id = prId
                               THEN [allPRs[i] EXCEPT !.isPinned = Some(Get(o.ret))]
                               ELSE allPRs[i]]
               /\ toggles' = [toggles EXCEPT ![prId] = @ + 1]
       /\ UNCHANGED <<inflight, loading, error, dashFrame>>

NextDash == FetchPRs \/ FetchPRsResolved \/ HandlePinToggle

SpecDash == InitDash /\ [][NextDash]_vars

---------------------------------------------------------------------------
(* Filter and sort pipeline: filterAndSortPRs and the legacy filterPRs *)

\* JavaScript strings over ASCII letters, digits, space and hyphen
UpperCase == "ABCDEFGHIJKLMNOPQRSTUVWXYZ"
LowerCase == "abcdefghijklmnopqrstuvwxyz"
CharAt(str, i) == SubSeq(str, i, i)

Characters ==
  {CharAt(UpperCase, i) : i \in 1..Len(UpperCase)} \cup
  {CharAt(LowerCase, i) : i \in 1..Len(LowerCase)} \cup
  {" ", "-", "0", "1", "2", "3", "4", "5", "6", "7", "8", "9"}

LowerOf ==
  [c \in Characters |->
     IF \E i \in 1..Len(UpperCase) : CharAt(UpperCase, i) = c
     THEN CharAt(LowerCase, CHOOSE i \in 1..Len(UpperCase) : CharAt(UpperCase, i) = c)
     ELSE c]

LowerChar(c) == LowerOf[c]

\* String.prototype.toLowerCase
RECURSIVE toLowerCase(_)
toLowerCase(str) ==
  IF Len(str) = 0 THEN ""
  ELSE toLowerCase(SubSeq(str, 1, Len(str) - 1)) \o LowerChar(CharAt(str, Len(str)))

\* String.prototype.trim: white space off both ends
trim(str) ==
  LET inked == {i \in 1..Len(str) : CharAt(str, i) # " "}
  IN IF inked = {} THEN ""
     ELSE SubSeq(str, CHOOSE i \in inked : \A j \in inked : i <= j,
                      CHOOSE i \in inked : \A j \in inked : i >= j)

\* String.prototype.includes
StrIncludes(str, q) ==
  \E i \in 0..(Len(str) - Len(q)) : SubSeq(str, i + 1, i + Len(q)) = q

\* Array.prototype.includes on an array of strings
ArrIncludes(arr, v) == \E i \in DOMAIN arr : arr[i] = v

\* the truthiness of an optional boolean field (undefined is falsy)
IsTrue(o) == o # None /\ Get(o)

\* String.prototype.localeCompare on these characters: letters compare without
\* regard to case, space and hyphen sort before digits and digits before
\* letters; strings equal up to case differ by the first character whose case
\* differs, the lower-case one first
CollationOrder == " -0123456789abcdefghijklmnopqrstuvwxyz"
PrimaryOf ==
  [c \in Characters |->
     CHOOSE i \in 1..Len(CollationOrder) : CharAt(CollationOrder, i) = LowerOf[c]]

Primary(c) == PrimaryOf[c]

\* faulty variant: compares by length only
localeCompare_ByLength(a, b) ==
  IF Len(a) < Len(b) THEN -1 ELSE IF Len(a) > Len(b) THEN 1 ELSE 0

localeCompare(a, b) ==
  LET n == IF Len(a) < Len(b) THEN Len(a) ELSE Len(b)
      apart == {i \in 1..n : Primary(CharAt(a, i)) # Primary(CharAt(b, i))}
      cased == {i \in 1..n : CharAt(a, i) # CharAt(b, i)}
  IN IF apart # {}
     THEN LET i == CHOOSE k \in apart : \A j \in apart : k <= j
          IN IF Primary(CharAt(a, i)) < Primary(CharAt(b, i)) THEN -1 ELSE 1
     ELSE IF Len(a) # Len(b) THEN (IF Len(a) < Len(b) THEN -1 ELSE 1)
     ELSE IF cased = {} THEN 0
     ELSE LET i == CHOOSE k \in cased : \A j \in cased : k <= j
          IN IF CharAt(a, i) = LowerChar(CharAt(a, i)) THEN -1 ELSE 1

\* faulty variant: the title is matched as written, not lower-cased
Keep_TitleAsWritten(pr, options, normalizedQuery) ==
  IF pr.draft THEN FALSE
  ELSE IF Len(options.repositories) > 0
          /\ ~ArrIncludes(options.repositories, pr.repository.name) THEN FALSE
  ELSE IF Len(options.authors) > 0
          /\ ~ArrIncludes(options.authors, pr.user.login) THEN FALSE
  ELSE IF options.hideStale /\ IsTrue(pr.stale) THEN FALSE
  ELSE IF Len(normalizedQuery) > 0
  THEN \/ StrIncludes(pr.title, normalizedQuery)
       \/ StrIncludes(toLowerCase(pr.user.login), normalizedQuery)
       \/ StrIncludes(toLowerCase(pr.repository.name), normalizedQuery)
  ELSE TRUE

\* faulty variant: a pull request passes when its repository or its author
\* is selected
Keep_AnyFilter(pr, options, normalizedQuery) ==
  IF pr.draft THEN FALSE
  ELSE IF Len(options.repositories) > 0 /\ Len(options.authors) > 0
          /\ ~ArrIncludes(options.repositories, pr.repository.name)
          /\ ~ArrIncludes(options.authors, pr.user.login) THEN FALSE
  ELSE IF options.hideStale /\ IsTrue(pr.stale) THEN FALSE
  ELSE IF Len(normalizedQuery) > 0
  THEN \/ StrIncludes(toLowerCase(pr.title), normalizedQuery)
       \/ StrIncludes(toLowerCase(pr.user.login), normalizedQuery)
       \/ StrIncludes(toLowerCase(pr.repository.name), normalizedQuery)
  ELSE TRUE

\* the callback of prs.filter, with normalizedQuery computed by the caller
Keep(pr, options, normalizedQuery) ==
  IF pr.draft THEN FALSE
  ELSE IF Len(options.repositories) > 0
          /\ ~ArrIncludes(options.repositories, pr.repository.name) THEN FALSE
  ELSE IF Len(options.authors) > 0
          /\ ~ArrIncludes(options.authors, pr.user.login) THEN FALSE
  ELSE IF options.hideStale /\ IsTrue(pr.stale) THEN FALSE
  ELSE IF Len(normalizedQuery) > 0
  THEN \/ StrIncludes(toLowerCase(pr.title), normalizedQuery)
       \/ StrIncludes(toLowerCase(pr.user.login), normalizedQuery)
       \/ StrIncludes(toLowerCase(pr.repository.name), normalizedQuery)
  ELSE TRUE

\* faulty variant: the reviewer test comes before the pin test
Compare_ReviewerFirst(a, b, options) ==
  IF options.prioritizeMyReviews
     /\ IsTrue(a.userIsRequestedReviewer) /\ ~IsTrue(b.userIsRequestedReviewer) THEN -1
  ELSE IF options.prioritizeMyReviews
          /\ ~IsTrue(a.userIsRequestedReviewer) /\ IsTrue(b.userIsRequestedReviewer) THEN 1
  ELSE IF IsTrue(a.isPinned) /\ ~IsTrue(b.isPinned) THEN -1
  ELSE IF ~IsTrue(a.isPinned) /\ IsTrue(b.isPinned) THEN 1
  ELSE IF options.sortBy = "newest" THEN b.created_at - a.created_at
  ELSE IF options.sortBy = "oldest" THEN a.created_at - b.created_at
  ELSE IF options.sortBy = "updated" THEN b.updated_at - a.updated_at
  ELSE IF options.sortBy = "title" THEN localeCompare(a.title, b.title)
  ELSE 0

\* the callback of sort: negative when a goes first, positive when b does
Compare(a, b, options) ==
  IF IsTrue(a.isPinned) /\ ~IsTrue(b.isPinned) THEN -1
  ELSE IF ~IsTrue(a.isPinned) /\ IsTrue(b.isPinned) THEN 1
  ELSE IF options.prioritizeMyReviews
          /\ IsTrue(a.userIsRequestedReviewer) /\ ~IsTrue(b.userIsRequestedReviewer) THEN -1
  ELSE IF options.prioritizeMyReviews
          /\ ~IsTrue(a.userIsRequestedReviewer) /\ IsTrue(b.userIsRequestedReviewer) THEN 1
  ELSE IF options.sortBy = "newest" THEN b.created_at - a.created_at
  ELSE IF options.sortBy = "oldest" THEN a.created_at - b.created_at
  ELSE IF options.sortBy = "updated" THEN b.updated_at - a.updated_at
  ELSE IF options.sortBy = "title" THEN localeCompare(a.title, b.title)
  ELSE 0

\* faulty variant: an element goes before the elements it ties with
Insert_BeforeEquals(sorted, x, options) ==
  LET after == {i \in DOMAIN sorted : Compare(sorted[i], x, options) >= 0}
      at == IF after = {} THEN Len(sorted) + 1
            ELSE CHOOSE i \in after : \A j \in after : i <= j
  IN SubSeq(sorted, 1, at - 1) \o <<x>> \o SubSeq(sorted, at, Len(sorted))

\* one step of a stable sort: x goes before the first element that must follow it
Insert(sorted, x, options) ==
  LET after == {i \in DOMAIN sorted : Compare(sorted[i], x, options) > 0}
      at == IF after = {} THEN Len(sorted) + 1
            ELSE CHOOSE i \in after : \A j \in after : i <= j
  IN SubSeq(sorted, 1, at - 1) \o <<x>> \o SubSeq(sorted, at, Len(sorted))

\* [...arr].sort(callback): Array.prototype.sort is stable, and with a
\* callback that is a consistent ordering its result is this one
RECURSIVE Sort(_, _)
Sort(arr, options) ==
  IF arr = <<>> THEN <<>>
  ELSE Insert(Sort(SubSeq(arr, 1, Len(arr) - 1), options), arr[Len(arr)], options)

filterAndSortPRs(prs, options) ==
  LET normalizedQuery == trim(toLowerCase(options.searchQuery))
      filtered == SelectSeq(prs, LAMBDA pr : Keep(pr, options, normalizedQuery))
  IN Sort(filtered, options)

filterPRs(prs, query, showDrafts) ==
  LET filteredPrs == IF showDrafts THEN prs ELSE SelectSeq(prs, LAMBDA pr : ~pr.draft)
  IN filterAndSortPRs(filteredPrs, [DefaultOptions EXCEPT !.searchQuery = query])

\* a classified pull request as the dashboard holds it
PullRequest(id, title, login, repo, draft, stale, created, updated, pinned, mine) ==
  [id |-> id, title |-> title, user |-> [login |-> login],
   repository |-> [name |-> repo], draft |-> draft, stale |-> stale,
   created_at |-> created, updated_at |-> updated,
   isPinned |-> Some(pinned), userIsRequestedReviewer |-> Some(mine)]

\* arrays of up to n pull requests of the given kinds; the identifier of a
\* pull request is its position in the array, the rest comes from its kind
Arrays(kinds, n) ==
  {[i \in DOMAIN ks |-> [ks[i] EXCEPT !.id = IdOf(i)]] :
     ks \in UNION {[1..m -> kinds] : m \in 0..n}}

pipeFrame ==
  <<classifyVars, colorVars, pinVars, inflight, loading, error, toggles, pinned0, restVars>>

\* the effect that follows a change of allPRs or filterOptions
FilterAndSortPRs ==
  /\ called.fn = "none"
  /\ filteredPRs' = filterAndSortPRs(allPRs, filterOptions)
  /\ previous' = filteredPRs
  /\ called' = [fn |-> "filterAndSortPRs", showDrafts |-> FALSE]
  /\ UNCHANGED <<allPRs, filterOptions, pipeFrame>>

\* the same call on its own result
FilterAndSortAgain ==
  /\ called.fn = "filterAndSortPRs"
  /\ filteredPRs' = filterAndSortPRs(filteredPRs, filterOptions)
  /\ previous' = filteredPRs
  /\ called' = [fn |-> "again", showDrafts |-> FALSE]
  /\ UNCHANGED <<allPRs, filterOptions, pipeFrame>>

\* a caller of the legacy entry point, with the query of the options
FilterPRs ==
  /\ called.fn = "none"
  /\ \E showDrafts \in BOOLEAN :
       /\ filteredPRs' = filterPRs(allPRs, filterOptions.searchQuery, showDrafts)
       /\ called' = [fn |-> "filterPRs", showDrafts |-> showDrafts]
  /\ previous' = filteredPRs
  /\ UNCHANGED <<allPRs, filterOptions, pipeFrame>>

NextPipe == FilterAndSortPRs \/ FilterAndSortAgain \/ FilterPRs

\* everything but allPRs and filterOptions at its start
PipeStart ==
  /\ filteredPRs = <<>> /\ previous = <<>> /\ called = NoCall
  /\ inflight = 0 /\ loading = FALSE /\ error = FALSE /\ toggles = <<>> /\ pinned0 = {}
  /\ PinIdle /\ ClassifyColorIdle /\ RestIdle

\* repository, author, draft and stale vary; a draft carries no stale flag
FilterKinds ==
  {PullRequest("-", "Fix bug", login, repo, ds[1], ds[2], 1, 1, FALSE, FALSE) :
     login \in {"alice", "bob"}, repo \in {"api", "web"},
     ds \in {<<TRUE, None>>, <<FALSE, Some(FALSE)>>, <<FALSE, Some(TRUE)>>}}

InitFilter ==
  /\ allPRs \in Arrays(FilterKinds, MaxFilterLen)
  /\ \E repositories \in {<<>>, <<"api">>}, authors \in {<<>>, <<"bob">>},
        hideStale \in BOOLEAN :
       filterOptions = [DefaultOptions EXCEPT !.repositories = repositories,
                                              !.authors = authors,
                                              !.hideStale = hideStale]
  /\ PipeStart

\* title, author and repository vary
SearchKinds ==
  {PullRequest("-", title, who[1], who[2], FALSE, Some(FALSE), 1, 1, FALSE, FALSE) :
     title \in {"Fix bug", "Add feature", "fixture cleanup"},
     who \in {<<"alice", "api">>, <<"Fixer", "api">>, <<"alice", "hotfix">>}}

SearchQueries == {"", "  ", "fix", " FIX "}

InitSearch ==
  /\ allPRs \in Arrays(SearchKinds, MaxSearchLen)
  /\ \E q \in SearchQueries : filterOptions = [DefaultOptions EXCEPT !.searchQuery = q]
  /\ PipeStart

\* the pin, the reviewer flag and the three sort keys vary
SortKinds ==
  {PullRequest("-", key[3], "alice", "api", FALSE, Some(FALSE), key[1], key[2], pinned, mine) :
     key \in {<<1, 2, "Fix bug">>, <<2, 1, "add feature">>},
     pinned \in BOOLEAN, mine \in BOOLEAN}

InitSort ==
  /\ allPRs \in Arrays(SortKinds, MaxSortLen)
  /\ \E sortBy \in {"newest", "oldest", "updated", "title"}, prioritize \in BOOLEAN :
       filterOptions = [DefaultOptions EXCEPT !.sortBy = sortBy,
                                              !.prioritizeMyReviews = prioritize]
  /\ PipeStart

\* drafts, stale and fresh pull requests, pinned or not, with two sort keys
MixedKinds ==
  {PullRequest("-", key[3], "alice", "api", ds[1], ds[2], key[1], key[2], pinned, FALSE) :
     key \in {<<1, 2, "Fix bug">>, <<2, 1, "add feature">>},
     ds \in {<<TRUE, None>>, <<FALSE, Some(FALSE)>>, <<FALSE, Some(TRUE)>>},
     pinned \in BOOLEAN}

InitMixed ==
  /\ allPRs \in Arrays(MixedKinds, MaxSortLen)
  /\ \E hideStale \in BOOLEAN, sortBy \in {"newest", "title"} :
       filterOptions = [DefaultOptions EXCEPT !.hideStale = hideStale, !.sortBy = sortBy]
  /\ PipeStart

InitPipe == InitFilter \/ InitSearch \/ InitSort \/ InitMixed

SpecFilter == InitFilter /\ [][NextPipe]_vars

SpecSearch == InitSearch /\ [][NextPipe]_vars

SpecSort == InitSort /\ [][NextPipe]_vars

SpecPipe == InitPipe /\ [][NextPipe]_vars

---------------------------------------------------------------------------
(* Grouping by status: groupPRsByStatus *)

ReviewStateNames == {"APPROVED", "CHANGES_REQUESTED", "NEEDS_REVIEW", "DRAFT", "UNKNOWN"}

\* the initial value of the reduce: the five keys, each with an empty array
EmptyGroups == [name \in ReviewStateNames |-> <<>>]

\* faulty variant: the pull request is put in front of its bucket
AddToGroup_Prepend(acc, pr) ==
  LET status == IF pr.status = None THEN "UNKNOWN" ELSE Get(pr.status)
  IN [name \in DOMAIN acc \cup {status} |->
        IF name = status
        THEN <<pr>> \o (IF status \in DOMAIN acc THEN acc[status] ELSE <<>>)
        ELSE acc[name]]

\* the reducer: status = pr.status || 'UNKNOWN';
\* groups[status] = [...(groups[status] || []), pr]
AddToGroup(acc, pr) ==
  LET status == IF pr.status = None THEN "UNKNOWN" ELSE Get(pr.status)
  IN [name \in DOMAIN acc \cup {status} |->
        IF name = status
        THEN (IF status \in DOMAIN acc THEN acc[status] ELSE <<>>) \o <<pr>>
        ELSE acc[name]]

\* prs.reduce(reducer, initial): the successive accumulators
RECURSIVE GroupTrace(_)
GroupTrace(list) ==
  IF list = <<>> THEN <<EmptyGroups>>
  ELSE LET t == GroupTrace(SubSeq(list, 1, Len(list) - 1))
       IN Append(t, AddToGroup(t[Len(t)], list[Len(list)]))

groupPRsByStatus(list) == GroupTrace(list)[Len(list) + 1]

\* pull requests as the classifier leaves them: a status, or none yet
GroupInputs ==
  UNION { [1..n -> {None} \cup {Some(name) : name \in ReviewStateNames}] :
            n \in 0..MaxGroupLen }

GroupedPR(i, status) == [id |-> IdOf(i), title |-> PRTitle, status |-> status]

InitGroup ==
  /\ \E statuses \in GroupInputs :
       groupInput = [i \in DOMAIN statuses |-> GroupedPR(i, statuses[i])]
  /\ groups = None
  /\ PinIdle /\ ClassifyColorIdle /\ DashIdle /\ PipeIdle /\ FetchIdle /\ MountIdle

groupFrame ==
  <<classifyVars, colorVars, pinVars, dashVars, pipeVars, fetchVars, mountVars>>

\* one render of the dashboard: const groupedPRs = groupPRsByStatus(filteredPRs)
GroupPRsByStatus ==
  /\ groups = None
  /\ groups' = Some(groupPRsByStatus(groupInput))
  /\ UNCHANGED <<groupInput, groupFrame>>

NextGroup == GroupPRsByStatus

SpecGroup == InitGroup /\ [][NextGroup]_vars

---------------------------------------------------------------------------
(* Fetching: fetchAllPRs, fetchRepositoryPRs and fetchPRReviews *)

(* One call of fetchAllPRs.  Every request is answered once, with data or   *)
(* with an error; the answers are fixed when the call starts and arrive in  *)
(* any order.  Each continuation after an await is one step.                *)

\* config.repositories, in configured order
Repositories == <<"api", "web">>

\* the answer to pulls.listReviews for one pull request
ReviewsAnswers ==
  { [ok |-> FALSE, data |-> <<>>],
    [ok |-> TRUE, data |-> <<>>],
    [ok |-> TRUE, data |-> <<[state |-> "APPROVED"]>>],
    [ok |-> TRUE, data |-> <<[state |-> "CHANGES_REQUESTED"]>>] }

\* an open pull request as pulls.list delivers it, with the answer its
\* reviews request will get
PullKinds ==
  { [draft |-> FALSE, reviews |-> a] : a \in ReviewsAnswers }
    \cup { [draft |-> TRUE, reviews |-> [ok |-> FALSE, data |-> <<>>]] }

\* the answer to pulls.list for one repository: an error, or its pull requests
ListAnswers ==
  { [ok |-> FALSE, pulls |-> <<>>] }
    \cup { [ok |-> TRUE, pulls |-> p] :
             p \in UNION { [1..n -> PullKinds] : n \in 0..MaxFetchPRs } }

RECURSIVE SumLen(_)
SumLen(lists) ==
  IF lists = <<>> THEN 0 ELSE Len(Head(lists)) + SumLen(Tail(lists))

\* the answers of one call, one per configured repository
Answers ==
  { w \in [DOMAIN Repositories -> ListAnswers] :
      SumLen([r \in DOMAIN w |-> w[r].pulls]) <= MaxFetchPRs }

\* pr.id.toString() of the k-th pull request of the r-th repository
PullId(r, k) == IdOf((r - 1) * (MaxFetchPRs + 1) + k)

\* fetchPRReviews, faulty variant: the error of the request is rethrown
fetchPRReviews_Rethrows(answer) ==
  IF answer.ok THEN [threw |-> FALSE, value |-> [i \in DOMAIN answer.data |->
                                                  [state |-> answer.data[i].state]]]
  ELSE [threw |-> TRUE, value |-> <<>>]

\* fetchPRReviews: the reviews mapped to Review objects, [] after an error
fetchPRReviews(answer) ==
  IF answer.ok THEN [threw |-> FALSE, value |-> [i \in DOMAIN answer.data |->
                                                  [state |-> answer.data[i].state]]]
  ELSE [threw |-> FALSE, value |-> <<>>]

\* the object literal pullRequest of fetchRepositoryPRs (no reviewDecision,
\* status or stale)
BuildPullRequest(r, k, pull, reviews) ==
  [id |-> PullId(r, k), draft |-> pull.draft, updated_at |-> UpdatedAt,
   repository |-> Repositories[r], reviews |-> Some(reviews),
   reviewDecision |-> None, status |-> None, stale |-> None]

\* faulty variant: the pull request is classified as built from pulls.list
\* and the reviews are attached to the result
Processed_ClassifyFirst(r, k, pull, reviews, days, nowMs) ==
  LET o == getPRStatus(<<BuildPullRequest(r, k, pull, <<>>)>>, 1, days, nowMs)
  IN [o.heap[o.ref] EXCEPT !.reviews = Some(reviews)]

\* the callback of data.map after its await: build, then getPRStatus
Processed(r, k, pull, reviews, days, nowMs) ==
  LET o == getPRStatus(<<BuildPullRequest(r, k, pull, reviews)>>, 1, days, nowMs)
  IN o.heap[o.ref]

\* prArrays.flat()
RECURSIVE Flat(_)
Flat(arrays) ==
  IF arrays = <<>> THEN <<>> ELSE Head(arrays) \o Flat(Tail(arrays))

\* the instant of the call: the pull requests are one threshold old
FetchCalledAt == UpdatedAt + DAY_MS

\* fetchAllPRs has been called: pulls.list is in flight for every repository
InitFetch ==
  /\ responses \in Answers
  /\ listed = [r \in DOMAIN Repositories |-> FALSE]
  /\ slots = [r \in DOMAIN Repositories |-> [k \in DOMAIN responses[r].pulls |-> None]]
  /\ results = [r \in DOMAIN Repositories |-> None]
  /\ fetched = None
  /\ propagated = FALSE
  /\ now = FetchCalledAt /\ staleThresholdDays = 1
  /\ heap = <<>> /\ returned = 0 /\ calledAt = 0
  /\ repoName = <<>> /\ color = None
  /\ PinIdle /\ DashIdle /\ PipeIdle /\ GroupIdle /\ MountIdle

fetchFrame ==
  <<responses, heap, returned, calledAt, staleThresholdDays, colorVars, pinVars, dashVars,
    pipeVars, groupVars, mountVars>>

\* fetchRepositoryPRs after `await octokit.pulls.list`: on an error the catch
\* block returns []; otherwise a reviews request starts for every pull request
PullsListed(r) ==
  /\ ~listed[r]
  /\ listed' = [listed EXCEPT ![r] = TRUE]
  /\ IF responses[r].ok
     THEN UNCHANGED results
     ELSE results' = [results EXCEPT ![r] = Some(<<>>)]
  /\ UNCHANGED <<slots, fetched, propagated, now, fetchFrame>>

\* the callback of data.map after `await fetchPRReviews`: the pull request is
\* built with the reviews and classified; a rejection of the callback rejects
\* the Promise.all and lands in the catch block of fetchRepositoryPRs
ReviewsFetched(r) ==
  /\ listed[r] /\ responses[r].ok /\ results[r] = None
  /\ \E k \in DOMAIN slots[r] :
     /\ slots[r][k] = None
     /\ LET reviews == fetchPRReviews(responses[r].pulls[k].reviews)
        IN IF reviews.threw
           THEN /\ results' = [results EXCEPT ![r] = Some(<<>>)]
                /\ UNCHANGED slots
           ELSE /\ slots' = [slots EXCEPT ![r][k] =
                               Some([pr |-> Processed(r, k, responses[r].pulls[k], reviews.value,
                                                      staleThresholdDays, now),
                                     at |-> now])]
                /\ UNCHANGED results
  /\ UNCHANGED <<listed, fetched, propagated, now, fetchFrame>>

\* fetchRepositoryPRs after `await Promise.all(...)`: every callback has
\* fulfilled; the values come in the order of data, whatever the order of arrival
RepositoryJoined(r) ==
  /\ listed[r] /\ responses[r].ok /\ results[r] = None
  /\ \A k \in DOMAIN slots[r] : slots[r][k] # None
  /\ results' = [results EXCEPT ![r] = Some([k \in DOMAIN slots[r] |-> Get(slots[r][k]).pr])]
  /\ UNCHANGED <<listed, slots, fetched, propagated, now, fetchFrame>>

\* fetchAllPRs after `await Promise.all(prPromises)`: no fetchRepositoryPRs
\* promise rejects, the arrays come in the order of repositories
AllJoined ==
  /\ fetched = None
  /\ \A r \in DOMAIN results : results[r] # None
  /\ fetched' = Some(Flat([r \in DOMAIN results |-> Get(results[r])]))
  /\ UNCHANGED <<listed, slots, results, propagated, now, fetchFrame>>

\* the answers take time: the clock passes the staleness threshold
FetchTick ==
  /\ fetched = None
  /\ now = FetchCalledAt
  /\ now' = FetchCalledAt + 1
  /\ UNCHANGED <<listed, slots, results, fetched, propagated, fetchFrame>>

NextFetch ==
  \/ \E r \in DOMAIN Repositories : PullsListed(r)
  \/ \E r \in DOMAIN Repositories : ReviewsFetched(r)
  \/ \E r \in DOMAIN Repositories : RepositoryJoined(r)
  \/ AllJoined
  \/ FetchTick

SpecFetch == InitFetch /\ [][NextFetch]_vars

---------------------------------------------------------------------------
(* Start-up of the dashboard: the filterOptions initialiser, the first       *)
(* render and the effects of PRFilters and PRDashboard                       *)

(* The React state filterOptions is a JSON value here: an object is          *)
(* JObjectOf(fields), fields being a function from the names of the          *)
(* properties it has to their values (a complete FilterOptions object has    *)
(* the six fields of DefaultOptions).  A state update is queued by its       *)
(* setter and takes effect at the next render; the effects of one commit     *)
(* run one after the other, PRFilters' before PRDashboard's.                 *)

NoFields == [k \in {} |-> TRUE]
JObjectOf(fields) == [t |-> "object", fields |-> fields]

\* { ...value }: the own enumerable properties of a parsed JSON value
Spread(v) ==
  IF v.t = "object" THEN (IF "fields" \in DOMAIN v THEN v.fields ELSE NoFields)
  ELSE IF v.t = "array"
  THEN [k \in {ToString(i - 1) : i \in DOMAIN v.items} |->
          v.items[CHOOSE i \in DOMAIN v.items : ToString(i - 1) = k]]
  ELSE IF v.t = "string"
  THEN [k \in {ToString(i - 1) : i \in 1..Len(v.str)} |->
          LET i == CHOOSE i \in 1..Len(v.str) : ToString(i - 1) = k
          IN SubSeq(v.str, i, i)]
  ELSE NoFields

\* value.name, None for undefined; reading a property of null throws
Property(v, name) ==
  IF v.t = "null" THEN [threw |-> TRUE, value |-> None]
  ELSE IF v.t = "object" /\ "fields" \in DOMAIN v /\ name \in DOMAIN v.fields
  THEN [threw |-> FALSE, value |-> Some(v.fields[name])]
  ELSE [threw |-> FALSE, value |-> None]

\* the first half of the initialiser: prioritizeMyReviews of 'app_config',
\* true when there is no record, it does not parse or it does not set it
PrioritizeFromConfig(config) ==
  IF ~Truthy(config) THEN TRUE
  ELSE LET configObj == JSONparse(config)
       IN IF configObj.threw THEN TRUE
          ELSE LET p == Property(configObj.value, "prioritizeMyReviews")
               IN IF p.threw \/ p.value = None THEN TRUE ELSE Get(p.value)

\* the initialiser of useState<FilterOptions>
InitialFilterOptions(config, savedFilters) ==
  LET prioritizeMyReviews == PrioritizeFromConfig(config)
      filters == JSONparse(savedFilters)
  IN IF Truthy(savedFilters) /\ ~filters.threw
     THEN JObjectOf([prioritizeMyReviews |-> prioritizeMyReviews] @@ Spread(filters.value))
     ELSE JObjectOf([DefaultOptions EXCEPT !.prioritizeMyReviews = prioritizeMyReviews])

\* useConfig() once ConfigProvider has loaded 'app_config': the parsed
\* record, DEFAULT_CONFIG (which does not set prioritizeMyReviews) otherwise
ContextConfig(config) ==
  IF Truthy(config) /\ ~JSONparse(config).threw THEN JSONparse(config).value
  ELSE JObjectOf([organizationName |-> "", repositories |-> <<>>])

\* the render reads filterOptions.repositories.length and
\* filterOptions.authors.length (PRDashboard) and the same of options
\* (PRFilters): a TypeError when either property is undefined
RenderThrows(options) ==
  \/ options.t # "object"
  \/ "repositories" \notin DOMAIN options.fields
  \/ "authors" \notin DOMAIN options.fields

\* filterAndSortPRs starts with options.searchQuery.toLowerCase()
FilterThrows(options) ==
  \/ options.t # "object"
  \/ "searchQuery" \notin DOMAIN options.fields

\* the records under 'app_config'
AppConfigs ==
  { Missing, NotJson, JsonText(JNull),
    JsonText(JObjectOf([repositories |-> <<"org/api">>])),
    JsonText(JObjectOf([repositories |-> <<"org/api">>, prioritizeMyReviews |-> TRUE])),
    JsonText(JObjectOf([repositories |-> <<"org/api">>, prioritizeMyReviews |-> FALSE])) }

\* records under 'pr_filters' written by an earlier visit
SavedOptions ==
  { [DefaultOptions EXCEPT !.prioritizeMyReviews = p, !.sortBy = s, !.searchQuery = q] :
      p \in BOOLEAN, s \in {"updated", "title"}, q \in {"", "fix"} }

\* records under 'pr_filters' that parse but are no FilterOptions object
OtherRecords ==
  { JsonText(JNull), JsonText(JNumber), JsonText(JString("x")), JsonText(JArray(<<>>)),
    JsonText(JObjectOf(NoFields)),
    JsonText(JObjectOf([repositories |-> <<>>, authors |-> <<>>])) }

FilterRecords ==
  {Missing, EmptyText, NotJson} \cup OtherRecords
    \cup {JsonText(JObjectOf(o)) : o \in SavedOptions}

NoUpdates == [options |-> None, filtered |-> None]

\* the component has been created: the state initialisers have run, the
\* first render has not yet produced its output
InitMount ==
  /\ appConfig \in AppConfigs
  /\ prFilters \in FilterRecords
  /\ mountedWith = prFilters
  /\ filterOptions = InitialFilterOptions(appConfig, prFilters)
  /\ filteredPRs = <<>> /\ previous = <<>> /\ called = NoCall
  /\ phase = "initialised"
  /\ pending = <<>>
  /\ queued = NoUpdates
  /\ PinIdle /\ ClassifyColorIdle /\ DashIdle /\ GroupIdle /\ FetchIdle

mountFrame ==
  <<appConfig, mountedWith, previous, called, classifyVars, colorVars, pinVars, dashVars,
    groupVars, fetchVars>>

\* the rest of the first render; the commit schedules every effect
FirstRender ==
  /\ phase = "initialised"
  /\ IF RenderThrows(filterOptions)
     THEN phase' = "crashed" /\ UNCHANGED pending
     ELSE /\ phase' = "mounted"
          /\ pending' = <<"restore", "save", "filter", "config">>
  /\ UNCHANGED <<prFilters, filterOptions, filteredPRs, queued, mountFrame>>

\* handleFilterChange(newOptions): setFilterOptions and setItem
handleFilterChange(newOptions) ==
  [options |-> Some(newOptions), storage |-> JSONstringify(newOptions)]

\* PRFilters' effect on [onChange]: the saved record, when it parses, is
\* handed to onChange, which is the dashboard's handleFilterChange
RestoreEffect ==
  /\ phase = "mounted" /\ pending # <<>> /\ Head(pending) = "restore"
  /\ LET savedFilters == prFilters
         parsedFilters == JSONparse(savedFilters)
     IN IF Truthy(savedFilters) /\ ~parsedFilters.threw
        THEN LET o == handleFilterChange(parsedFilters.value)
             IN /\ queued' = [queued EXCEPT !.options = o.options]
                /\ prFilters' = o.storage
        ELSE UNCHANGED <<queued, prFilters>>
  /\ pending' = Tail(pending)
  /\ UNCHANGED <<phase, filterOptions, filteredPRs, mountFrame>>

\* PRFilters' effect on [options]
SaveEffect ==
  /\ phase = "mounted" /\ pending # <<>> /\ Head(pending) = "save"
  /\ prFilters' = JSONstringify(filterOptions)
  /\ pending' = Tail(pending)
  /\ UNCHANGED <<phase, filterOptions, filteredPRs, queued, mountFrame>>

\* PRDashboard's effect on [allPRs, filterOptions]; an error thrown by an
\* effect unmounts the tree
FilterEffect ==
  /\ phase = "mounted" /\ pending # <<>> /\ Head(pending) = "filter"
  /\ IF FilterThrows(filterOptions)
     THEN /\ phase' = "crashed"
          /\ pending' = <<>>
          /\ UNCHANGED queued
     ELSE /\ queued' = [queued EXCEPT
                          !.filtered = Some(filterAndSortPRs(allPRs, filterOptions.fields))]
          /\ pending' = Tail(pending)
          /\ UNCHANGED phase
  /\ UNCHANGED <<prFilters, filterOptions, filteredPRs, mountFrame>>

\* PRDashboard's effect on [config]: setFilterOptions(prev => ...) when the
\* configuration sets prioritizeMyReviews to another value than the rendered one
ConfigEffect ==
  /\ phase = "mounted" /\ pending # <<>> /\ Head(pending) = "config"
  /\ LET p == Property(ContextConfig(appConfig), "prioritizeMyReviews")
         latest == IF queued.options = None THEN filterOptions ELSE Get(queued.options)
     IN IF /\ ~p.threw /\ p.value # None
           /\ Property(filterOptions, "prioritizeMyReviews").value # p.value
        THEN queued' = [queued EXCEPT !.options =
                          Some(JObjectOf([prioritizeMyReviews |-> Get(p.value)]
                                           @@ Spread(latest)))]
        ELSE UNCHANGED queued
  /\ pending' = Tail(pending)
  /\ UNCHANGED <<phase, prFilters, filterOptions, filteredPRs, mountFrame>>

\* a render caused by queued updates: handleFilterChange is a new function,
\* so PRFilters' effect on [onChange] runs again; the effects on the options
\* run when filterOptions is a new object
Render ==
  /\ phase = "mounted" /\ pending = <<>> /\ queued # NoUpdates
  /\ LET options == IF queued.options = None THEN filterOptions ELSE Get(queued.options)
     IN /\ filterOptions' = options
        /\ IF RenderThrows(options)
           THEN phase' = "crashed" /\ UNCHANGED pending
           ELSE /\ pending' = IF queued.options = None THEN <<"restore">>
                              ELSE <<"restore", "save", "filter">>
                /\ UNCHANGED phase
  /\ filteredPRs' = IF queued.filtered = None THEN filteredPRs ELSE Get(queued.filtered)
  /\ queued' = NoUpdates
  /\ UNCHANGED <<prFilters, mountFrame>>

NextMount ==
  FirstRender \/ RestoreEffect \/ SaveEffect \/ FilterEffect \/ ConfigEffect \/ Render

SpecMount == InitMount /\ [][NextMount]_vars

\* React runs every scheduled render and every effect of a commit
SpecMountFair ==
  /\ SpecMount
  /\ WF_vars(FirstRender) /\ WF_vars(Render)
  /\ WF_vars(RestoreEffect) /\ WF_vars(SaveEffect) /\ WF_vars(FilterEffect)
  /\ WF_vars(ConfigEffect)

---------------------------------------------------------------------------
(* Claims about the colour assigner, checked under SpecColor *)

\* the reference of the specification: every operation of the fold wraps to
\* a signed 32-bit integer
Wrap32(a) ==
  Num(((a.hi + 32768) % 65536) - 32768, a.lo)
RefShl5(h) == Wrap32(Num(h.hi * 32 + (h.lo * 32) \div 65536, (h.lo * 32) % 65536))
RefStep(h, code) == Wrap32(NumAdd(Num(0, code), Wrap32(NumSub(RefShl5(h), h))))
RECURSIVE RefTrace(_)
RefTrace(codes) ==
  IF codes = <<>> THEN <<Num(0, 0)>>
  ELSE LET t == RefTrace(SubSeq(codes, 1, Len(codes) - 1))
       IN Append(t, RefStep(t[Len(t)], codes[Len(codes)]))
RefHash(name) == RefTrace(name)[Len(name) + 1]
RefHue(name) == NumMod360(NumAbs(RefHash(name)))
RefColor(name) ==
  [bg |-> "hsl(" \o ToString(RefHue(name)) \o ", 80%, 90%)",
   text |-> "hsl(" \o ToString(RefHue(name)) \o ", 80%, 30%)"]
InInt32(a) == a.hi >= -32768 /\ a.hi <= 32767

---------------------------------------------------------------------------
(* Claims about the pin store, checked under SpecPin and SpecPinCorrupt *)

\* the identifiers held by a record
Members(st) == {id \in Ids : Includes(getPinnedPRs(st), id).value}
ReadsStore == {"pinPR", "unpinPR", "togglePinPR", "applyPinStatus"}

\* C8 as stated: on a missing, unparsable or otherwise corrupt record
\* getPinnedPRs returns the empty list, writes nothing and does not throw, and
\* pinPR, unpinPR, togglePinPR and applyPinStatus do not throw either.
C8_ListFailsClosed ==
  (before \in {Missing, EmptyText} \cup CorruptRecords) =>
     /\ op.name = "getPinnedPRs" =>
          /\ ret = Some(JArray(<<>>))
          /\ ~raised /\ writes = 0 /\ storage = before
     /\ op.name \in ReadsStore => ~raised

\* C9: pinPR(id) on a store holding id and unpinPR(id) on a store not holding
\* id leave the record unchanged and write nothing; a repeated pinPR(id) or
\* unpinPR(id) changes nothing; after pinPR(id) the id is a member and after
\* unpinPR(id) it is not.
C9_AddRemoveIdempotent ==
  /\ [](op.name = "pinPR" =>
          /\ ~raised /\ op.id \in Members(storage)
          /\ op.id \in Members(before) => (storage = before /\ writes = 0))
  /\ [](op.name = "unpinPR" =>
          /\ ~raised /\ op.id \notin Members(storage)
          /\ op.id \notin Members(before) => (storage = before /\ writes = 0))
  /\ [][(op.name \in {"pinPR", "unpinPR"} /\ op' = op) => storage' = storage]_vars

C9_Witness ==
  /\ op.name = "pinPR" /\ op.id = IdOf(2)
  /\ before = JsonText(JArray(<<IdOf(1), IdOf(2)>>))
  /\ storage = before /\ writes = 0

\* C10: togglePinPR(id) returns true exactly when id is pinned after the call,
\* flips the membership of id and leaves every other identifier as it was.
C10_ToggleReturnsNewState ==
  op.name = "togglePinPR" =>
    /\ ~raised
    /\ ret = Some(op.id \in Members(storage))
    /\ (op.id \in Members(storage)) = (op.id \notin Members(before))
    /\ \A other \in Ids \ {op.id} :
         (other \in Members(storage)) = (other \in Members(before))

C10_Witness ==
  /\ op.name = "togglePinPR" /\ op.id = IdOf(1)
  /\ before = JsonText(JArray(<<IdOf(2), IdOf(1), IdOf(3)>>))
  /\ storage = JsonText(JArray(<<IdOf(2), IdOf(3)>>))
  /\ ret = Some(FALSE)

\* C11: toggling the same identifier twice in a row restores the pinned set
\* the first toggle found, and the two calls return opposite booleans
C11_ToggleTwiceRestores ==
  (op.name = "togglePinPR" /\ prev.op = op) =>
    /\ ~raised
    /\ Members(storage) = Members(prev.before)
    /\ prev.ret # None /\ ret = Some(~Get(prev.ret))

\* toggle(101); toggle(101) on the pinned list 101, 102: unpinned, then pinned
\* again at the end of the list
C11_Witness ==
  /\ op.name = "togglePinPR" /\ op.id = IdOf(1) /\ prev.op = op
  /\ prev.before = JsonText(JArray(<<IdOf(1), IdOf(2)>>))
  /\ before = JsonText(JArray(<<IdOf(2)>>))
  /\ storage = JsonText(JArray(<<IdOf(2), IdOf(1)>>))
  /\ prev.ret = Some(FALSE) /\ ret = Some(TRUE)

\* C13: applyPinStatus returns as many pull requests as it was given, in the
\* same order, each with isPinned = (its id is in the pinned list at the time
\* of the call) and every other field as given; the record in localStorage is
\* not written and the objects it was given are not modified
C13_ApplyPinStatusFrame ==
  (op.name = "applyPinStatus" /\ ~raised) =>
    /\ ret # None
    /\ Len(Get(ret)) = Len(given.refs)
    /\ \A i \in DOMAIN given.refs :
         /\ Get(ret)[i] \in DOMAIN heap
         /\ heap[Get(ret)[i]] =
              [given.values[i] EXCEPT
                 !.isPinned = Some(given.values[i].id \in Members(before))]
         /\ heap[given.refs[i]] = given.values[i]
    /\ storage = before
    /\ writes = 0

\* 102 and 101 fetched while 101 is pinned: a new array, 102 unpinned first,
\* 101 pinned second, the two fetched objects still without isPinned
C13_Witness ==
  /\ op.name = "applyPinStatus" /\ ~raised
  /\ before = JsonText(JArray(<<IdOf(1)>>))
  /\ given.refs = <<1, 2>>
  /\ given.values = <<[id |-> IdOf(2), title |-> PRTitle, isPinned |-> None],
                       [id |-> IdOf(1), title |-> PRTitle, isPinned |-> None]>>
  /\ heap[1].isPinned = None /\ heap[2].isPinned = None
  /\ ret = Some(<<3, 4>>)
  /\ heap[3] = [id |-> IdOf(2), title |-> PRTitle, isPinned |-> Some(FALSE)]
  /\ heap[4] = [id |-> IdOf(1), title |-> PRTitle, isPinned |-> Some(TRUE)]

\* the list a record holds (empty for a missing record)
PinList(st) == IF st = Missing THEN <<>> ELSE st.value.items

\* C28: the persisted pin list never holds an identifier twice: from a missing
\* record (and so from every duplicate-free list, all of which are reached),
\* after any sequence of pinPR, unpinPR and togglePinPR on any identifiers,
\* the record is missing or a JSON array whose entries are pairwise distinct.
C28_NoDuplicates ==
  /\ storage = Missing \/ (storage.kind = "json" /\ storage.value.t = "array")
  /\ \A i, j \in DOMAIN PinList(storage) :
       PinList(storage)[i] = PinList(storage)[j] => i = j

\* a toggle that added a third identifier to a list of two
C28_Witness ==
  /\ op.name = "togglePinPR" /\ op.id = IdOf(1)
  /\ before = JsonText(JArray(<<IdOf(3), IdOf(2)>>))
  /\ storage = JsonText(JArray(<<IdOf(3), IdOf(2), IdOf(1)>>))
  /\ prev.op.name = "pinPR"

---------------------------------------------------------------------------
(* Claims about the dashboard, checked under SpecDash *)

\* C12: pin clicks are handled one at a time, each as one uninterrupted
\* read-modify-write of the record, so whatever refreshes run in between, an
\* identifier is pinned exactly when (it was pinned at the start) differs
\* from (an odd number of clicks on it were handled): no click is lost
C12_TogglesNotLost ==
  \A id \in DashIds :
    (id \in Members(storage)) = ((id \in pinned0) # (toggles[id] % 2 = 1))

\* three clicks on 101, not pinned at the start, the last one handled while
\* a refresh is waiting for the network: 101 is pinned
C12_Witness ==
  /\ toggles[IdOf(1)] = 3
  /\ IdOf(1) \notin pinned0
  /\ IdOf(1) \in Members(storage)
  /\ \E i \in DOMAIN allPRs : allPRs[i].id = IdOf(1) /\ allPRs[i].isPinned = Some(TRUE)
  /\ inflight > 0

\* C14: a refresh (a fetchPRs call, whatever the network answers) never writes
\* the pinned list, so every identifier pinned before it is pinned after it,
\* and the pull requests it installs carry isPinned as the list says
C14_RefreshKeepsPins ==
  [][toggles' = toggles =>
       /\ storage' = storage
       /\ (inflight' < inflight /\ ~error') =>
            \A i \in DOMAIN allPRs' :
              allPRs'[i].isPinned = Some(allPRs'[i].id \in Members(storage))]_vars

\* no click yet: a refresh found 101 pinned from an earlier visit and
\* installed 101 as pinned and 102 as not pinned; 101 is still in the list
C14_Witness ==
  /\ \A id \in DashIds : toggles[id] = 0
  /\ inflight = 0 /\ ~loading /\ ~error
  /\ storage = JsonText(JArray(<<IdOf(1)>>))
  /\ allPRs = <<[id |-> IdOf(1), title |-> PRTitle, isPinned |-> Some(TRUE)],
                 [id |-> IdOf(2), title |-> PRTitle, isPinned |-> Some(FALSE)]>>

\* C29: whatever the interleaving of pin clicks, refresh starts and refresh
\* completions (refreshes may overlap, a click may be handled while a
\* refresh is in flight), every pull request in allPRs has isPinned equal to
\* the membership of its id in the persisted pin list.
C29_PinConsistency ==
  \A i \in DOMAIN allPRs :
    allPRs[i].isPinned = Some(allPRs[i].id \in Members(storage))

\* one refresh has completed while another is still in flight, and 102 was
\* unpinned and 101 pinned by clicks since the page was opened
C29_Witness ==
  /\ inflight = 1 /\ ~loading
  /\ pinned0 = {IdOf(2)}
  /\ toggles[IdOf(1)] = 1 /\ toggles[IdOf(2)] = 1
  /\ Members(storage) = {IdOf(1)}
  /\ allPRs = <<[id |-> IdOf(1), title |-> PRTitle, isPinned |-> Some(TRUE)],
                 [id |-> IdOf(2), title |-> PRTitle, isPinned |-> Some(FALSE)]>>

---------------------------------------------------------------------------
(* Claims about the filter stage, checked under SpecFilter *)

Elements(arr) == {arr[i] : i \in DOMAIN arr}

\* the three filters of the claim, each inactive when its option is empty or off
InRepositories(pr, o) ==
  o.repositories = <<>> \/ \E i \in DOMAIN o.repositories : o.repositories[i] = pr.repository.name
ByAuthors(pr, o) ==
  o.authors = <<>> \/ \E i \in DOMAIN o.authors : o.authors[i] = pr.user.login
NotHiddenAsStale(pr, o) == ~(o.hideStale /\ pr.stale = Some(TRUE))

\* C15: with no search text, the pipeline returns exactly the non-draft pull
\* requests that pass every active filter (repository, author, stale), each
\* once; a pull request hidden as stale stays, flagged stale, in allPRs
C15_FiltersAreConjoined ==
  called.fn = "filterAndSortPRs" =>
    /\ \A pr \in Elements(allPRs) :
         pr \in Elements(filteredPRs) <=>
           /\ ~pr.draft
           /\ InRepositories(pr, filterOptions)
           /\ ByAuthors(pr, filterOptions)
           /\ NotHiddenAsStale(pr, filterOptions)
    /\ Elements(filteredPRs) \subseteq Elements(allPRs)
    /\ Cardinality(Elements(filteredPRs)) = Len(filteredPRs)
    /\ \A i \in DOMAIN allPRs :
         (allPRs[i].stale = Some(TRUE) /\ filterOptions.hideStale) =>
           allPRs[i] \notin Elements(filteredPRs)

\* repositories = [api], authors = [bob], hideStale on: bob's stale pull
\* request on api is dropped and still in allPRs, flagged stale; his fresh
\* one on api is the output
C15_Witness ==
  /\ called.fn = "filterAndSortPRs"
  /\ filterOptions.repositories = <<"api">> /\ filterOptions.authors = <<"bob">>
  /\ filterOptions.hideStale
  /\ Len(allPRs) = 2
  /\ allPRs[1].user.login = "bob" /\ allPRs[1].repository.name = "api"
  /\ allPRs[1].stale = Some(TRUE)
  /\ allPRs[2].user.login = "bob" /\ allPRs[2].repository.name = "api"
  /\ allPRs[2].stale = Some(FALSE)
  /\ filteredPRs = <<allPRs[2]>>

\* C16: drafts are excluded when the drafts flag is off; when it is on
\* (showDrafts = true), a draft that passes the other filters is in the output
C16_DraftsFollowTheFlag ==
  called.fn = "filterPRs" =>
    \A pr \in Elements(allPRs) :
      pr.draft =>
        IF called.showDrafts
        THEN pr \in Elements(filteredPRs)
        ELSE pr \notin Elements(filteredPRs)

---------------------------------------------------------------------------
(* Claims about the search, checked under SpecSearch *)

\* the pull requests of SearchKinds that have "fix", in any case, in their
\* title, their author or their repository, listed by hand
MentionsFix(pr) ==
  \/ pr.title \in {"Fix bug", "fixture cleanup"}
  \/ pr.user.login = "Fixer"
  \/ pr.repository.name = "hotfix"

\* C17: the search text is lower-cased and trimmed; empty or blank, it keeps
\* every pull request; otherwise it keeps exactly those whose lower-cased
\* title, author login or repository name contains it
C17_SearchIsSubstringMatch ==
  called.fn = "filterAndSortPRs" =>
    LET q == trim(toLowerCase(filterOptions.searchQuery))
    IN /\ \A pr \in Elements(allPRs) :
            pr \in Elements(filteredPRs) <=>
              \/ q = ""
              \/ StrIncludes(toLowerCase(pr.title), q)
              \/ StrIncludes(toLowerCase(pr.user.login), q)
              \/ StrIncludes(toLowerCase(pr.repository.name), q)
       /\ filterOptions.searchQuery \in {"", "  "} => filteredPRs = allPRs
       /\ filterOptions.searchQuery \in {"fix", " FIX "} =>
            /\ q = "fix"
            /\ \A pr \in Elements(allPRs) :
                 pr \in Elements(filteredPRs) <=> MentionsFix(pr)

\* " FIX " over 'Fix bug', 'Add feature', 'fixture cleanup', all by alice on
\* api: the first and the third are kept
C17_Witness ==
  /\ called.fn = "filterAndSortPRs"
  /\ filterOptions.searchQuery = " FIX "
  /\ Len(allPRs) = 3
  /\ allPRs[1].title = "Fix bug" /\ allPRs[2].title = "Add feature"
  /\ allPRs[3].title = "fixture cleanup"
  /\ \A i \in 1..3 : allPRs[i].user.login = "alice" /\ allPRs[i].repository.name = "api"
  /\ filteredPRs = <<allPRs[1], allPRs[3]>>

---------------------------------------------------------------------------
(* Claims about the sort, checked under SpecSort and SpecPipe *)

\* the two titles of SortKinds in alphabetical order, by hand
TitleRank(title) == IF title = "add feature" THEN 1 ELSE 2

\* the key of a pull request under a sort option, smaller first
SortKey(pr, sortBy) ==
  IF sortBy = "newest" THEN 0 - pr.created_at
  ELSE IF sortBy = "oldest" THEN pr.created_at
  ELSE IF sortBy = "updated" THEN 0 - pr.updated_at
  ELSE TitleRank(pr.title)

\* where a pull request stood in allPRs
Position(pr) == CHOOSE k \in DOMAIN allPRs : allPRs[k] = pr

Rearranged ==
  /\ Len(filteredPRs) = Len(allPRs)
  /\ Elements(filteredPRs) = Elements(allPRs)

\* C18: pinned pull requests come before unpinned ones; among those of one
\* pin state, with prioritizeMyReviews on, those awaiting the user's review
\* come first; the pin is looked at before the reviewer flag; with
\* prioritizeMyReviews off the reviewer flag changes nothing
C18_PinThenReviewer ==
  called.fn = "filterAndSortPRs" =>
    /\ Rearranged
    /\ \A i, j \in DOMAIN filteredPRs :
         i < j =>
           LET a == filteredPRs[i]
               b == filteredPRs[j]
           IN /\ ~(a.isPinned = Some(FALSE) /\ b.isPinned = Some(TRUE))
              /\ (a.isPinned = b.isPinned /\ filterOptions.prioritizeMyReviews) =>
                   ~(/\ a.userIsRequestedReviewer = Some(FALSE)
                     /\ b.userIsRequestedReviewer = Some(TRUE))
              /\ (a.isPinned = b.isPinned /\ ~filterOptions.prioritizeMyReviews) =>
                   SortKey(a, filterOptions.sortBy) <= SortKey(b, filterOptions.sortBy)

\* prioritizeMyReviews on: a pull request awaiting the user's review, not
\* pinned, then a pinned one that does not: the pinned one comes out first
C18_Witness ==
  /\ called.fn = "filterAndSortPRs"
  /\ filterOptions.prioritizeMyReviews
  /\ Len(allPRs) = 2
  /\ allPRs[1].isPinned = Some(FALSE) /\ allPRs[1].userIsRequestedReviewer = Some(TRUE)
  /\ allPRs[2].isPinned = Some(TRUE) /\ allPRs[2].userIsRequestedReviewer = Some(FALSE)
  /\ filteredPRs = <<allPRs[2], allPRs[1]>>

\* C19: among pull requests that tie on pin and reviewer priority, the order
\* is created_at descending (newest), ascending (oldest), updated_at
\* descending (updated) or title ascending (title), and those with equal keys
\* keep the order they had in the input
C19_ThirdLevelOrder ==
  called.fn = "filterAndSortPRs" =>
    /\ Rearranged
    /\ \A i, j \in DOMAIN filteredPRs :
         i < j =>
           LET a == filteredPRs[i]
               b == filteredPRs[j]
               ka == SortKey(a, filterOptions.sortBy)
               kb == SortKey(b, filterOptions.sortBy)
           IN (/\ a.isPinned = b.isPinned
               /\ \/ ~filterOptions.prioritizeMyReviews
                  \/ a.userIsRequestedReviewer = b.userIsRequestedReviewer) =>
                /\ ka <= kb
                /\ ka = kb => Position(a) < Position(b)

\* by title: 'Fix bug', 'add feature', 'Fix bug' come out as 'add feature',
\* then the two 'Fix bug' in their input order
C19_Witness ==
  /\ called.fn = "filterAndSortPRs"
  /\ filterOptions.sortBy = "title"
  /\ Len(allPRs) = 3
  /\ \A i \in 1..3 : /\ allPRs[i].isPinned = Some(FALSE)
                     /\ allPRs[i].userIsRequestedReviewer = Some(FALSE)
  /\ allPRs[1].title = "Fix bug" /\ allPRs[2].title = "add feature"
  /\ allPRs[3].title = "Fix bug"
  /\ filteredPRs = <<allPRs[2], allPRs[1], allPRs[3]>>

\* C20: applying the pipeline to its own output with the same options returns
\* that output; the empty array gives the empty array
C20_Idempotent ==
  /\ called.fn = "again" => filteredPRs = previous
  /\ (called.fn # "none" /\ allPRs = <<>>) => filteredPRs = <<>>

\* a first pass that dropped a pull request and moved another, a second pass
\* that changed nothing
C20_Witness ==
  /\ called.fn = "again"
  /\ Len(allPRs) = 3
  /\ allPRs[2].draft /\ allPRs[3].isPinned = Some(TRUE) /\ allPRs[1].isPinned = Some(FALSE)
  /\ filteredPRs = <<allPRs[3], allPRs[1]>>
  /\ previous = filteredPRs

---------------------------------------------------------------------------
(* Claims about the status classifier, checked under SpecClassify *)

Input == heap[1]
Called == returned # 0
Result == heap[returned]
HasReview(pr, st) ==
  /\ pr.reviews # None
  /\ \E i \in DOMAIN Get(pr.reviews) : Get(pr.reviews)[i].state = st
\* the staleness the specification defines, at the time of the last call
ElapsedOverThreshold == (calledAt - Input.updated_at) > staleThresholdDays * 86400000

\* C1: a pull request whose draft flag is true is classified DRAFT, whatever
\* its reviews and its reviewDecision are.
C1_DraftIsDraft ==
  (Called /\ Input.draft) => Result.status = Some("DRAFT")

C1_Witness ==
  /\ Called /\ Input.draft
  /\ HasReview(Input, "CHANGES_REQUESTED") /\ HasReview(Input, "APPROVED")
  /\ Input.reviewDecision = Some("CHANGES_REQUESTED")
  /\ Result.status = Some("DRAFT")

\* C2: a non-draft pull request with at least one CHANGES_REQUESTED review is
\* classified CHANGES_REQUESTED, even when other reviews are APPROVED and
\* whatever reviewDecision is.
C2_ChangesRequestedWins ==
  (Called /\ ~Input.draft /\ HasReview(Input, "CHANGES_REQUESTED"))
     => Result.status = Some("CHANGES_REQUESTED")

C2_Witness ==
  /\ Called /\ ~Input.draft
  /\ HasReview(Input, "CHANGES_REQUESTED") /\ HasReview(Input, "APPROVED")
  /\ Input.reviewDecision = Some("APPROVED")
  /\ Result.status = Some("CHANGES_REQUESTED")

\* C3: a non-draft pull request with an empty or absent review list and no
\* reviewDecision is classified NEEDS_REVIEW (not APPROVED by the vacuous
\* "every review" test).
C3_NoReviewsNeedsReview ==
  (/\ Called /\ ~Input.draft
   /\ Input.reviews \in {None, Some(<<>>)}
   /\ Input.reviewDecision = None)
     => Result.status = Some("NEEDS_REVIEW")

C3_Witness ==
  /\ Called /\ ~Input.draft
  /\ Input.reviews = Some(<<>>) /\ Input.reviewDecision = None
  /\ Result.status = Some("NEEDS_REVIEW")

\* C4 as stated: every classified pull request, draft or not, carries
\* isStale = ((now - updatedAt) > thresholdDays * 86,400,000 ms).
C4_Original_StaleOnEveryBranch ==
  Called => Result.stale = Some(ElapsedOverThreshold)

\* C4 amended: every non-draft pull request carries isStale = ((now -
\* updatedAt) > thresholdDays * 86,400,000 ms) whatever rule set its status;
\* a draft pull request is returned with status DRAFT and its stale field as
\* it was on the input (unset), however long ago it was updated.
C4_StaleOnNonDraftOnly ==
  Called =>
    IF Input.draft
    THEN Result.status = Some("DRAFT") /\ Result.stale = Input.stale /\ Result.stale = None
    ELSE Result.stale = Some(ElapsedOverThreshold)

C4_Witness ==
  /\ Called /\ Input.draft /\ ElapsedOverThreshold
  /\ Result.status = Some("DRAFT") /\ Result.stale = None

\* C5: for a non-draft pull request, isStale is false while now - updatedAt
\* <= T days (the boundary included) and true beyond; as now increases a
\* true isStale never turns false again.
C5_StaleBoundaryMonotone ==
  /\ [](( Called /\ ~Input.draft) =>
          /\ (calledAt - Input.updated_at <= staleThresholdDays * 86400000
                => Result.stale = Some(FALSE))
          /\ (calledAt - Input.updated_at > staleThresholdDays * 86400000
                => Result.stale = Some(TRUE)))
  /\ [][(Called /\ ~Input.draft /\ Result.stale = Some(TRUE))
          => heap'[returned'].stale = Some(TRUE)]_vars

C5_Witness ==
  /\ Called /\ ~Input.draft
  /\ calledAt - Input.updated_at = staleThresholdDays * 86400000
  /\ Result.stale = Some(FALSE)
  /\ now - Input.updated_at = staleThresholdDays * 86400000 + 1

\* C6: getPRStatus never mutates its input: the caller's pull request keeps
\* every field, and status and stale appear only on the returned copy.
C6_InputNotMutated ==
  /\ [](Called =>
          /\ returned # 1
          /\ Result.status # None
          /\ Input.status = None /\ Input.stale = None)
  /\ [][heap'[1] = heap[1]]_vars

C6_Witness ==
  /\ Called /\ ~Input.draft /\ returned # 1
  /\ Result.status = Some("APPROVED") /\ Result.stale = Some(TRUE)
  /\ Input.status = None /\ Input.stale = None

---------------------------------------------------------------------------
(* Claims about the grouping, checked under SpecGroup *)

StatusOf(pr) == IF pr.status = None THEN "UNKNOWN" ELSE Get(pr.status)

\* the pull requests of the input with the given status, in input order
WithStatus(name) == SelectSeq(groupInput, LAMBDA pr : StatusOf(pr) = name)

\* C21: groupPRsByStatus returns exactly the five buckets APPROVED,
\* CHANGES_REQUESTED, NEEDS_REVIEW, DRAFT and UNKNOWN; every pull request of
\* the input is once in the bucket of its status (UNKNOWN when it has none)
\* and in no other, and each bucket keeps the order of the input.
C21_OrderPreservingPartition ==
  groups # None =>
    /\ DOMAIN Get(groups) = ReviewStateNames
    /\ \A name \in ReviewStateNames : Get(groups)[name] = WithStatus(name)

\* approved, without status, approved: two buckets filled, one with two in order
C21_Witness ==
  /\ groups # None
  /\ Len(groupInput) = 3
  /\ groupInput[1].status = Some("APPROVED") /\ groupInput[2].status = None
  /\ groupInput[3].status = Some("APPROVED")
  /\ Get(groups)["APPROVED"] = <<groupInput[1], groupInput[3]>>
  /\ Get(groups)["UNKNOWN"] = <<groupInput[2]>>
  /\ Get(groups)["DRAFT"] = <<>>

---------------------------------------------------------------------------
(* Further claims about the classifier, checked under SpecClassify *)

NoReviews(pr) == pr.reviews \in {None, Some(<<>>)}

\* C24 as stated: a non-draft pull request with zero reviews is classified
\* NEEDS_REVIEW whatever the aggregate reviewDecision holds.
C24_Original_ZeroReviewsAlwaysNeedsReview ==
  (Called /\ ~Input.draft /\ NoReviews(Input)) => Result.status = Some("NEEDS_REVIEW")

\* C24 amended: a non-draft pull request with zero reviews is classified
\* NEEDS_REVIEW when reviewDecision is absent, APPROVED, REVIEW_REQUIRED or
\* any value other than CHANGES_REQUESTED, and CHANGES_REQUESTED when
\* reviewDecision is CHANGES_REQUESTED.
C24_ZeroReviewsUnlessChangesRequested ==
  (Called /\ ~Input.draft /\ NoReviews(Input)) =>
    Result.status = IF Input.reviewDecision = Some("CHANGES_REQUESTED")
                    THEN Some("CHANGES_REQUESTED")
                    ELSE Some("NEEDS_REVIEW")

C24_Witness ==
  /\ Called /\ ~Input.draft /\ Input.reviews = Some(<<>>)
  /\ Input.reviewDecision = Some("CHANGES_REQUESTED")
  /\ Result.status = Some("CHANGES_REQUESTED")

\* the review states of a pull request (none when reviews is absent)
States(pr) ==
  IF pr.reviews = None THEN {}
  ELSE {Get(pr.reviews)[i].state : i \in DOMAIN Get(pr.reviews)}

\* the ordered rule list of the claim
RuleList(pr) ==
  IF pr.draft THEN "DRAFT"
  ELSE IF "CHANGES_REQUESTED" \in States(pr)
          \/ pr.reviewDecision = Some("CHANGES_REQUESTED") THEN "CHANGES_REQUESTED"
  ELSE IF "APPROVED" \notin States(pr)
          \/ pr.reviewDecision = Some("REVIEW_REQUIRED") THEN "NEEDS_REVIEW"
  ELSE IF (pr.reviews # None /\ States(pr) \subseteq {"APPROVED", "COMMENTED"})
          \/ pr.reviewDecision = Some("APPROVED") THEN "APPROVED"
  ELSE "UNKNOWN"

CommentedOnly(pr) ==
  /\ pr.reviews # None /\ Get(pr.reviews) # <<>>
  /\ \A i \in DOMAIN Get(pr.reviews) : Get(pr.reviews)[i].state = "COMMENTED"

\* C26 as stated: a non-draft pull request whose reviews are all COMMENTED
\* (at least one), with no reviewDecision, is classified APPROVED.
C26_Original_CommentedOnlyApproved ==
  (Called /\ ~Input.draft /\ CommentedOnly(Input) /\ Input.reviewDecision = None)
     => Result.status = Some("APPROVED")

\* C26 amended: such a pull request is classified NEEDS_REVIEW, because the
\* needs-review rule (no review is APPROVED) is tested before isApproved.
C26_CommentedOnlyNeedsReview ==
  (Called /\ ~Input.draft /\ CommentedOnly(Input) /\ Input.reviewDecision = None)
     => Result.status = Some("NEEDS_REVIEW")

C26_Witness ==
  /\ Called /\ ~Input.draft
  /\ Input.reviews = Some(<<[state |-> "COMMENTED"], [state |-> "COMMENTED"]>>)
  /\ Input.reviewDecision = None
  /\ Result.status = Some("NEEDS_REVIEW")

---------------------------------------------------------------------------
(* Claims about fetching, checked under SpecFetch *)

\* the repositories whose pulls.list request was answered with data
Answered == {r \in DOMAIN Repositories : responses[r].ok}

\* the positions of the returned sequence holding the given identifier
PositionsOf(id) == {i \in DOMAIN Get(fetched) : Get(fetched)[i].id = id}

\* C22: a failed repository contributes nothing and blocks nothing: the call
\* returns every pull request of every other repository, once and classified;
\* a pull request whose reviews request failed is returned with zero reviews
\* and classified accordingly (DRAFT if draft, else NEEDS_REVIEW); the call
\* never rejects.
C22_PartialFailure ==
  /\ ~propagated
  /\ fetched # None =>
       /\ \A r \in Answered : \A k \in DOMAIN responses[r].pulls :
            /\ Cardinality(PositionsOf(PullId(r, k))) = 1
            /\ \A i \in PositionsOf(PullId(r, k)) :
                 /\ Get(fetched)[i].status # None
                 /\ ~responses[r].pulls[k].reviews.ok =>
                      /\ Get(fetched)[i].reviews = Some(<<>>)
                      /\ Get(fetched)[i].status =
                           Some(IF responses[r].pulls[k].draft THEN "DRAFT"
                                ELSE "NEEDS_REVIEW")
       /\ \A i \in DOMAIN Get(fetched) :
            \E r \in Answered : Get(fetched)[i].repository = Repositories[r]
       /\ Len(Get(fetched)) = SumLen([r \in DOMAIN responses |-> responses[r].pulls])

\* "api" failed; "web" answered with two pull requests, the reviews request
\* of the first failed: both are returned, the first as NEEDS_REVIEW
C22_Witness ==
  /\ fetched # None
  /\ ~responses[1].ok /\ responses[2].ok
  /\ Len(responses[2].pulls) = 2
  /\ ~responses[2].pulls[1].draft /\ ~responses[2].pulls[1].reviews.ok
  /\ responses[2].pulls[2].reviews = [ok |-> TRUE, data |-> <<[state |-> "APPROVED"]>>]
  /\ Len(Get(fetched)) = 2
  /\ Get(fetched)[1].id = PullId(2, 1) /\ Get(fetched)[1].status = Some("NEEDS_REVIEW")
  /\ Get(fetched)[2].id = PullId(2, 2) /\ Get(fetched)[2].status = Some("APPROVED")

\* the reviews a pull request carries once joined: those of its own answer
OwnReviews(r, k) ==
  IF responses[r].pulls[k].reviews.ok THEN responses[r].pulls[k].reviews.data ELSE <<>>

\* what the call has to return for the k-th pull request of the r-th
\* repository, classified at the instant t
Joined(r, k, t) ==
  LET draft == responses[r].pulls[k].draft
      pr == [draft |-> draft, reviews |-> Some(OwnReviews(r, k)), reviewDecision |-> None]
  IN [id |-> PullId(r, k), draft |-> draft, updated_at |-> UpdatedAt,
      repository |-> Repositories[r], reviews |-> Some(OwnReviews(r, k)),
      reviewDecision |-> None,
      status |-> Some(RuleList(pr)),
      stale |-> IF draft THEN None ELSE Some(t - UpdatedAt > staleThresholdDays * DAY_MS)]

\* the pull requests of the repositories from r on, in configured order
RECURSIVE JoinedFrom(_)
JoinedFrom(r) ==
  IF r > Len(Repositories) THEN <<>>
  ELSE (IF responses[r].ok
        THEN [k \in DOMAIN responses[r].pulls |-> Joined(r, k, Get(slots[r][k]).at)]
        ELSE <<>>) \o JoinedFrom(r + 1)

\* C27: in whatever order the answers arrive, the call returns the pull
\* requests of the repositories concatenated in configured order, each in the
\* order of its repository's list and carrying its own reviews; and every
\* pull request that has been classified was classified with its own
\* reviews joined (the stale flag is the clock's reading at that moment).
C27_JoinOrderInsensitive ==
  /\ fetched # None => Get(fetched) = JoinedFrom(1)
  /\ \A r \in DOMAIN slots : \A k \in DOMAIN slots[r] :
       slots[r][k] # None =>
         Get(slots[r][k]).pr = Joined(r, k, Get(slots[r][k]).at)

\* the answers for "web" arrived before the threshold passed and those for
\* "api" after it: the pull request of "api" still comes first
C27_Witness ==
  /\ fetched # None
  /\ Len(responses[1].pulls) = 1 /\ Len(responses[2].pulls) = 1
  /\ Get(slots[2][1]).at < Get(slots[1][1]).at
  /\ Get(fetched)[1].id = PullId(1, 1) /\ Get(fetched)[1].stale = Some(TRUE)
  /\ Get(fetched)[1].reviews = Some(<<[state |-> "APPROVED"]>>)
  /\ Get(fetched)[2].id = PullId(2, 1) /\ Get(fetched)[2].stale = Some(FALSE)
  /\ Get(fetched)[2].reviews = Some(<<[state |-> "CHANGES_REQUESTED"]>>)

---------------------------------------------------------------------------
(* Claims about the start-up, checked under SpecMount and SpecMountFair *)

\* the record the dashboard was started with is a FilterOptions object
WellFormed == mountedWith \in {JsonText(JObjectOf(o)) : o \in SavedOptions}

\* the documented defaults, prioritizeMyReviews from the configuration
DocumentedDefaults ==
  JObjectOf([searchQuery |-> "", repositories |-> <<>>, authors |-> <<>>,
             hideStale |-> TRUE, sortBy |-> "updated",
             prioritizeMyReviews |->
               IF appConfig \in {JsonText(JObjectOf([repositories |-> <<"org/api">>,
                                                      prioritizeMyReviews |-> FALSE]))}
               THEN FALSE ELSE TRUE])

\* C23 as stated: started with a 'pr_filters' record that is missing, does
\* not parse or is otherwise no FilterOptions object, the dashboard runs
\* with the default filter options (prioritizeMyReviews from the
\* configuration, true when unset) and neither the start-up nor the first
\* filterAndSortPRs call throws.
C23_DegradesToDefaults ==
  (~WellFormed /\ phase # "initialised") =>
     /\ phase # "crashed"
     /\ filterOptions = DocumentedDefaults

\* C30 as stated: started with a well-formed 'pr_filters' record, the
\* restore effect and handleFilterChange eventually reach, for good, a state
\* with no effect left to run and no update queued, in which filterOptions
\* is what the record holds.
Settled ==
  /\ phase = "mounted" /\ pending = <<>> /\ queued = NoUpdates
  /\ prFilters = JSONstringify(filterOptions)

C30_RestoreSettles == <>[](WellFormed => Settled)

====
